---- MODULE Spec2Model ----
(***************************************************************************)
(* A model of the node configuration store of provisioningserver/config.py *)
(* (MAAS): the file backend (ConfigurationFile), the database backend      *)
(* (ConfigurationDatabase), the Configuration facade with its option       *)
(* descriptors, and the process-wide parse cache of ConfigBase.            *)
(*                                                                         *)
(* Each backend has its own specification over its own variables; the      *)
(* variables of the other parts stay at their initial values.              *)
(*   Spec        ConfigurationFile.open run by several processes           *)
(*   SpecLive    the same, with the lock's timeout ending every wait       *)
(*   SpecDB      ConfigurationDatabase.open run by several processes       *)
(*   SpecCache   ConfigBase.load_from_cache / flush_cache by several       *)
(*               threads                                                   *)
(*   SpecCacheLive  the same, with every thread in the lock running on     *)
(*   SpecFacade  one Configuration facade over a file store                *)
(*   SpecSave    ConfigBase.save and atomic_write on one file              *)
(*   SpecEnv     the default filename and Configuration.open               *)
(*   SpecOption  ConfigurationOption descriptors on one store              *)
(*   SpecBase    the class methods of ConfigBase called by one thread      *)
(*   SpecPair    a file store and a database store used side by side       *)
(***************************************************************************)
EXTENDS Integers, Sequences, FiniteSets, TLC

(***************************************************************************)
(* Bounds of the model.                                                    *)
(***************************************************************************)
\* Number of processes (or threads) that use one backend concurrently.
NumProcs == 2

Procs == 1..NumProcs
NoProc == 0

(***************************************************************************)
(* The state.                                                              *)
(***************************************************************************)
\* ConfigurationFile.open on one path.
VARIABLES
    lock,       \* the holder of FileLock(path), or NoProc
    file,       \* the file at path
    pc,         \* where each process is in open()
    store,      \* each process's ConfigurationFile
    outcome,    \* how each process's last open() ended
    entryFile,  \* history: the file when each process entered its block
    saved,      \* history: whether save() ran in each process's open()
    lastDone,   \* history: the last open() that entered its block and ended
    errmsg,     \* history: what the ValueError of each process's load() names
    mutated     \* history: an entry was set, or one that existed deleted,
                \* since each process's load()

fvars == <<lock, file, pc, store, outcome, entryFile, saved, lastDone, errmsg,
           mutated>>

\* ConfigurationDatabase.open on one dbpath.
VARIABLES
    dbState,    \* "absent" (no file), "notable" (empty database), "table"
    dbRows,     \* the committed rows of the table
    dbWriter,   \* the process whose transaction holds the write lock
    dbTxn,      \* the rows as the writer's transaction sees them
    dpc,        \* where each process is in open()
    dsets,      \* history: the names the transaction has set, with the last value
    dtwice,     \* history: whether it set a name again, to another value
    dlast       \* history: the last block that ended

dvars == <<dbState, dbRows, dbWriter, dbTxn, dpc, dsets, dtwice, dlast>>

\* ConfigBase._cache and the threads that use it.
VARIABLES
    disk,       \* the file at each path: Missing, Invalid or <<"valid", doc>>
    cache,      \* ConfigBase._cache: path -> handle of the cached document
    cacheLock,  \* ConfigBase._cache_lock: the thread that holds it, or NoProc
    cdepth,     \* how many times its holder has entered the RLock
    tops,       \* the outer dict objects: slot -> logfile
    nesteds,    \* the nested dict objects: slot -> port
    cpc,        \* where each thread is in load_from_cache
    cpath,      \* the absolute path of each thread's call
    held,       \* the value each thread was last returned: a handle, or NoValue
    expected,   \* history: what each thread's value should hold
    parsedDoc,  \* history: the document parsed into each cache entry
    opens,      \* history: opens of each path since the last flush_cache
    reopened,   \* history: a path was opened after a successful parse
    flushed     \* history: the filename given to the last flush_cache, while
                \* nothing has been put in the cache since

cvars == <<disk, cache, cacheLock, cdepth, tops, nesteds, cpc, cpath, held, expected,
           parsedDoc, opens, reopened, flushed>>

\* One Configuration facade.
VARIABLES
    afile,      \* the file at the facade's path
    apc,        \* "closed", or "block" inside `with ClusterConfiguration.open()`
    astore,     \* the ConfigurationFile the facade is bound to
    ainst,      \* the facade's own __dict__ besides store: name -> value
    alast,      \* history: the last attribute assignment or deletion
    afresh,     \* history: this block's open() found no file at the path
    adid,       \* history: what this block has done so far: "nothing",
                \* "reads" (only reads of options that have no entry), "other"
    aprev       \* history: the block before this one

avars == <<afile, apc, astore, ainst, alast, afresh, adid, aprev>>

\* One save (ConfigurationFile.save, ConfigBase.save) seen step by step.
VARIABLES
    sfile,      \* the file at the path
    stmp,       \* the temporary file of the save in progress
    spc,        \* "idle", "writing" (the temporary file is being written)
    sold,       \* history: the file when the last save began
    snew,       \* history: the content the last save was given
    sread       \* what a reader that takes no lock found, and when

svars == <<sfile, stmp, spc, sold, snew, sread>>

\* The DEFAULT_FILENAME property of the configuration classes.
VARIABLES
    environ,    \* os.environ: variable name -> text
    elast       \* history: the last use of a DEFAULT_FILENAME property

evars == <<environ, elast>>

\* The ConfigurationOption objects of a class under definition.
VARIABLES
    options,    \* the options constructed: name -> ConfigurationOption
    ostore,     \* the store of an instance of the class
    olast       \* history: the last construction or read

ovars == <<options, ostore, olast>>

\* The class methods of ConfigBase called by one thread.
VARIABLES
    bdisk,      \* the file at each path and backup name
    bcache,     \* ConfigBase._cache: path -> the validated document
    blast       \* history: the last call, what it was given and returned

bvars == <<bdisk, bcache, blast>>

\* A ConfigurationFile and a ConfigurationDatabase used side by side.
VARIABLES
    xfile,      \* the file of the file store
    xst,        \* the ConfigurationFile of the block
    xrows,      \* the committed rows of the database
    xtxn,       \* the rows the block's connection sees
    xpc,        \* "closed", or "block"
    xlast       \* history: the last operation and what each store returned

xvars == <<xfile, xst, xrows, xtxn, xpc, xlast>>

vars == <<fvars, dvars, cvars, avars, svars, evars, ovars, bvars, xvars>>

\* A step of one part leaves the other parts alone.
FileOnly == UNCHANGED <<dvars, cvars, avars, svars, evars, ovars, bvars, xvars>>
DbOnly == UNCHANGED <<fvars, cvars, avars, svars, evars, ovars, bvars, xvars>>
CacheOnly == UNCHANGED <<fvars, dvars, avars, svars, evars, ovars, bvars, xvars>>
FacadeOnly == UNCHANGED <<fvars, dvars, cvars, svars, evars, ovars, bvars, xvars>>
SaveOnly == UNCHANGED <<fvars, dvars, cvars, avars, evars, ovars, bvars, xvars>>
EnvOnly == UNCHANGED <<fvars, dvars, cvars, avars, svars, ovars, bvars, xvars>>
OptionOnly == UNCHANGED <<fvars, dvars, cvars, avars, svars, evars, bvars, xvars>>
BaseOnly == UNCHANGED <<fvars, dvars, cvars, avars, svars, evars, ovars, xvars>>
PairOnly == UNCHANGED <<fvars, dvars, cvars, avars, svars, evars, ovars, bvars>>

(***************************************************************************)
(* Python values and their text forms.                                     *)
(*                                                                         *)
(* A Python value is a tagged pair: <<"int", n>>, <<"str", chars>> (a       *)
(* unicode text) or <<"bytes", chars>> (a byte string), where chars is a   *)
(* sequence of strings, each one character or a run of ASCII characters.   *)
(* A dict is a function from a set of names to values; the empty dict is   *)
(* <<>>.                                                                   *)
(***************************************************************************)
PyInt(n) == <<"int", n>>
PyStr(chars) == <<"str", chars>>
PyBytes(chars) == <<"bytes", chars>>
IsInt(v) == v[1] = "int"
IsStr(v) == v[1] = "str"
IsBytes(v) == v[1] = "bytes"
PyNone == <<"none">>

EmptyDict == <<>>
DictSet(d, k, v) == [x \in DOMAIN d \cup {k} |-> IF x = k THEN v ELSE d[x]]
DictDel(d, k) == [x \in DOMAIN d \ {k} |-> d[x]]

Digits == <<"0", "1", "2", "3", "4", "5", "6", "7", "8", "9">>
DigitChars == {Digits[i] : i \in DOMAIN Digits}
DigitVal(c) == (CHOOSE i \in DOMAIN Digits : Digits[i] = c) - 1

\* str(n) for a natural number: its decimal digits.
RECURSIVE IntToText(_)
IntToText(n) ==
    IF n < 10 THEN <<Digits[n + 1]>>
    ELSE IntToText(n \div 10) \o <<Digits[(n % 10) + 1]>>

\* int(text) for a non-empty sequence of digits.
RECURSIVE TextToInt(_)
TextToInt(t) ==
    IF Len(t) = 1 THEN DigitVal(t[1])
    ELSE 10 * TextToInt(SubSeq(t, 1, Len(t) - 1)) + DigitVal(t[Len(t)])

IsDigits(t) == Len(t) > 0 /\ \A i \in DOMAIN t : t[i] \in DigitChars

\* bytes.decode("utf-8"): the two bytes of U+00E9 become the character.
RECURSIVE Utf8Decode(_)
Utf8Decode(chars) ==
    IF chars = <<>> THEN <<>>
    ELSE IF Len(chars) >= 2 /\ chars[1] = "0xC3" /\ chars[2] = "0xA9"
    THEN <<"U+00E9">> \o Utf8Decode(SubSeq(chars, 3, Len(chars)))
    ELSE <<Head(chars)>> \o Utf8Decode(Tail(chars))

\* The text json.dumps and yaml.safe_dump write for a string: a byte
\* string is decoded as UTF-8 first.
TextOf(v) == IF IsBytes(v) THEN Utf8Decode(v[2]) ELSE v[2]

(***************************************************************************)
(* YAML as used by the file backend (yaml.safe_dump / yaml.safe_load).     *)
(*                                                                         *)
(* A file is <<"absent">> or <<"text", body>>; the body of a YAML text is  *)
(* <<>> (no document), <<"map", pairs>> (a mapping, one <<name, scalar     *)
(* text>> pair per entry, in sorted key order), <<"seq", texts>> (a list   *)
(* of scalars) or <<"scalar", text>> (a bare scalar).                      *)
(***************************************************************************)
\* The names a store may hold, in the order safe_dump sorts them, and the
\* names the blocks of Spec and SpecDB set and delete.
KeyOrder == <<"maas_url", "tftp_port", "tftp_root">>
Names == {"maas_url", "tftp_port"}

\* The raw values the stores hold in this model: an int and the string
\* that looks like it.
StoreValues == {PyInt(69), PyStr(<<"6", "9">>)}

Quote == "'"

\* The representer: an int is written plain, a str is written plain unless
\* the resolver would read it back as something else.
YamlScalarDump(v) ==
    IF IsInt(v) THEN IntToText(v[2])
    ELSE IF IsDigits(TextOf(v)) \/ TextOf(v) = <<>>
         THEN <<Quote>> \o TextOf(v) \o <<Quote>>
    ELSE TextOf(v)

\* The resolver and constructor: digits are an int, a quoted text is the
\* str between the quotes, anything else is a str.
YamlScalarLoad(t) ==
    IF IsDigits(t) THEN PyInt(TextToInt(t))
    ELSE IF Len(t) >= 2 /\ t[1] = Quote /\ t[Len(t)] = Quote
         THEN PyStr(SubSeq(t, 2, Len(t) - 1))
    ELSE PyStr(t)

yaml_safe_dump(config) ==
    LET keys == SelectSeq(KeyOrder, LAMBDA k : k \in DOMAIN config)
    IN  <<"map", [i \in DOMAIN keys |-> <<keys[i], YamlScalarDump(config[keys[i]])>>]>>

\* <<"none">> for an empty stream, <<"dict", d>> for a mapping, and
\* <<"other", v>> for any other document: a list <<"list", items>> or a
\* scalar.
yaml_safe_load(body) ==
    IF body = <<>> THEN <<"none">>
    ELSE IF body[1] = "map"
         THEN LET pairs == body[2]
                  keys == {pairs[i][1] : i \in DOMAIN pairs}
              IN  <<"dict", [k \in keys |->
                      YamlScalarLoad(
                          pairs[CHOOSE i \in DOMAIN pairs : pairs[i][1] = k][2])]>>
    ELSE IF body[1] = "seq"
         THEN <<"other", <<"list", [i \in DOMAIN body[2] |-> YamlScalarLoad(body[2][i])]>> >>
    ELSE <<"other", YamlScalarLoad(body[2])>>

AbsentFile == <<"absent">>
EmptyFile == <<"text", <<>> >>
ScalarFile == <<"text", <<"scalar", <<"h", "e", "l", "l", "o">> >> >>
ListFile == <<"text", <<"seq", << <<"6", "9">>, <<"h", "e", "l", "l", "o">> >> >> >>

\* touch(path): create the file empty when it does not exist.
touch(f) == IF f = AbsentFile THEN EmptyFile ELSE f

\* atomic_write(content, path): the file holds the whole new content.
atomic_write(content, f) == <<"text", content>>

(***************************************************************************)
(* ConfigurationFile: a store is [config |-> dict, dirty |-> BOOLEAN].     *)
(***************************************************************************)
File_init == [config |-> EmptyDict, dirty |-> FALSE]

\* __setitem__ with the dirty flag forgotten.
File_setitem_not_dirty(st, name, data) ==
    [config |-> DictSet(st.config, name, data), dirty |-> st.dirty]

File_setitem(st, name, data) ==
    [config |-> DictSet(st.config, name, data), dirty |-> TRUE]

\* __getitem__ of a dict that makes the entry it does not find.
File_getitem_setdefault(st, name) ==
    IF name \in DOMAIN st.config
    THEN [result |-> <<"ok", st.config[name]>>, st |-> st]
    ELSE [result |-> <<"ok", PyNone>>,
          st |-> [config |-> DictSet(st.config, name, PyNone), dirty |-> st.dirty]]

\* __getitem__: self.config[name], a plain dict: <<"ok", value>> or
\* <<"KeyError">>, and the store after it.
File_getitem(st, name) ==
    IF name \in DOMAIN st.config
    THEN [result |-> <<"ok", st.config[name]>>, st |-> st]
    ELSE [result |-> <<"KeyError">>, st |-> st]

\* __delitem__ with the dirty flag forgotten.
File_delitem_not_dirty(st, name) ==
    [config |-> DictDel(st.config, name), dirty |-> st.dirty]

File_delitem(st, name) ==
    IF name \in DOMAIN st.config
    THEN [config |-> DictDel(st.config, name), dirty |-> TRUE]
    ELSE st

\* load that takes a document that is not a mapping for an empty one.
File_load_lenient(st, f) ==
    LET config == yaml_safe_load(f[2])
    IN  IF config[1] = "dict"
        THEN [error |-> FALSE, st |-> [config |-> config[2], dirty |-> FALSE]]
        ELSE [error |-> FALSE, st |-> [config |-> EmptyDict, dirty |-> FALSE]]

\* load: [error |-> whether ValueError is raised, st |-> the store after].
File_load(st, f) ==
    LET config == yaml_safe_load(f[2])
    IN  IF config = <<"none">>
        THEN [error |-> FALSE, st |-> [config |-> EmptyDict, dirty |-> FALSE]]
        ELSE IF config[1] = "dict"
        THEN [error |-> FALSE, st |-> [config |-> config[2], dirty |-> FALSE]]
        ELSE [error |-> TRUE, st |-> st]

\* The ValueError of load: "Configuration in %s is not a mapping: %r" %
\* (self.path, config).
File_load_message(path, f) == [path |-> path, value |-> yaml_safe_load(f[2])[2]]

\* save: [file |-> the file after, st |-> the store after].
File_save(st, f) ==
    [file |-> atomic_write(yaml_safe_dump(st.config), f),
     st |-> [st EXCEPT !.dirty = FALSE]]

(***************************************************************************)
(* ConfigurationFile.open run by the processes of Procs on one path.       *)
(*                                                                         *)
(* lock is the FileLock of the path: the process that holds it, or NoProc. *)
(* FileLock.acquire(timeout=5) takes the lock when it is free; while       *)
(* another process holds it the caller waits, and fails with LockTimeout   *)
(* once the five seconds are over.                                         *)
(***************************************************************************)

\* lock.acquire succeeds at once only when nobody holds the lock.
acquire_unlocked(lk, p) == TRUE

acquire(lk, p) == lk = NoProc

\* A wait for the lock that no timeout ends.
timeout_never(lk, p) == FALSE

\* lock.acquire(timeout=5) gives up: the lock was held by another process
\* for the whole timeout.
timeout_elapsed(lk, p) == lk # NoProc /\ lk # p

\* lock.release() skipped.
release_forgotten(lk, p) == lk

release(lk, p) == IF lk = p THEN NoProc ELSE lk

\* The path the processes open.
Path == "/etc/maas/cluster.conf"

NoMessage == [path |-> "", value |-> PyNone]

\* The files a path may hold before any process opens it.
InitialFiles ==
    {AbsentFile, EmptyFile, ScalarFile, ListFile,
     atomic_write(yaml_safe_dump([k \in {"tftp_port"} |-> PyInt(69)]), AbsentFile)}

NoCycle == [outcome |-> "none", loaded |-> EmptyDict, config |-> EmptyDict]

FileIdle ==
    /\ lock = NoProc
    /\ pc = [p \in Procs |-> "idle"]
    /\ store = [p \in Procs |-> File_init]
    /\ outcome = [p \in Procs |-> "none"]
    /\ entryFile = [p \in Procs |-> AbsentFile]
    /\ saved = [p \in Procs |-> FALSE]
    /\ lastDone = NoCycle
    /\ errmsg = [p \in Procs |-> NoMessage]
    /\ mutated = [p \in Procs |-> FALSE]

FileInit ==
    /\ file \in InitialFiles
    /\ FileIdle

\* A process calls ConfigurationFile.open(path): lock = FileLock(path),
\* lock.acquire(timeout=5) begins.
Open(p) ==
    /\ pc[p] \in {"idle", "done"}
    /\ pc' = [pc EXCEPT ![p] = "acquiring"]
    /\ outcome' = [outcome EXCEPT ![p] = "none"]
    /\ store' = [store EXCEPT ![p] = File_init]
    /\ entryFile' = [entryFile EXCEPT ![p] = AbsentFile]
    /\ saved' = [saved EXCEPT ![p] = FALSE]
    /\ errmsg' = [errmsg EXCEPT ![p] = NoMessage]
    /\ mutated' = [mutated EXCEPT ![p] = FALSE]
    /\ UNCHANGED <<lock, file, lastDone>>
    /\ FileOnly

\* lock.acquire returns: the lock is taken.
Acquire(p) ==
    /\ pc[p] = "acquiring"
    /\ acquire(lock, p)
    /\ lock' = p
    /\ pc' = [pc EXCEPT ![p] = "locked"]
    /\ UNCHANGED <<file, store, outcome, entryFile, saved, lastDone, errmsg, mutated>>
    /\ FileOnly

\* lock.acquire raises LockTimeout: another process held the lock for the
\* whole timeout.  open() raises before its try block: no release.
AcquireTimeout(p) ==
    /\ pc[p] = "acquiring"
    /\ timeout_elapsed(lock, p)
    /\ pc' = [pc EXCEPT ![p] = "done"]
    /\ outcome' = [outcome EXCEPT ![p] = "LockTimeout"]
    /\ UNCHANGED <<lock, file, store, entryFile, saved, lastDone, errmsg, mutated>>
    /\ FileOnly

\* touch(path) succeeds.
Touch(p) ==
    /\ pc[p] = "locked"
    /\ file' = touch(file)
    /\ pc' = [pc EXCEPT ![p] = "touched"]
    /\ UNCHANGED <<lock, store, outcome, entryFile, saved, lastDone, errmsg, mutated>>
    /\ FileOnly

\* touch(path) raises (OSError); control goes to the finally clause.
TouchFail(p) ==
    /\ pc[p] = "locked"
    /\ pc' = [pc EXCEPT ![p] = "finally"]
    /\ outcome' = [outcome EXCEPT ![p] = "TouchError"]
    /\ UNCHANGED <<lock, file, store, entryFile, saved, lastDone, errmsg, mutated>>
    /\ FileOnly

\* configfile = cls(path); configfile.load(); then either the block is
\* entered or load's ValueError goes to the finally clause.
Load(p) ==
    /\ pc[p] = "touched"
    /\ LET r == File_load(File_init, file)
       IN  IF r.error
           THEN /\ pc' = [pc EXCEPT ![p] = "finally"]
                /\ outcome' = [outcome EXCEPT ![p] = "FormatError"]
                /\ errmsg' = [errmsg EXCEPT ![p] = File_load_message(Path, file)]
                /\ UNCHANGED <<store, entryFile>>
           ELSE /\ pc' = [pc EXCEPT ![p] = "block"]
                /\ store' = [store EXCEPT ![p] = r.st]
                /\ entryFile' = [entryFile EXCEPT ![p] = file]
                /\ UNCHANGED <<outcome, errmsg>>
    /\ UNCHANGED <<lock, file, saved, lastDone, mutated>>
    /\ FileOnly

\* Inside the block: configfile[name] = data.
SetItem(p, name, data) ==
    /\ pc[p] = "block"
    /\ store' = [store EXCEPT ![p] = File_setitem(store[p], name, data)]
    /\ mutated' = [mutated EXCEPT ![p] = TRUE]
    /\ UNCHANGED <<lock, file, pc, outcome, entryFile, saved, lastDone, errmsg>>
    /\ FileOnly

\* Inside the block: del configfile[name].
DelItem(p, name) ==
    /\ pc[p] = "block"
    /\ store' = [store EXCEPT ![p] = File_delitem(store[p], name)]
    /\ mutated' = [mutated EXCEPT ![p] = mutated[p] \/ name \in DOMAIN store[p].config]
    /\ UNCHANGED <<lock, file, pc, outcome, entryFile, saved, lastDone, errmsg>>
    /\ FileOnly

\* An else clause that saves whether the store is dirty or not.
exit_save_always(st, f) ==
    [file |-> File_save(st, f).file, st |-> File_save(st, f).st, saved |-> TRUE]

\* The else clause of open(): save when dirty.
exit_save(st, f) ==
    IF st.dirty
    THEN [file |-> File_save(st, f).file, st |-> File_save(st, f).st,
          saved |-> TRUE]
    ELSE [file |-> f, st |-> st, saved |-> FALSE]

\* The block exits cleanly and the save, if any, succeeds.
ExitClean(p) ==
    /\ pc[p] = "block"
    /\ LET r == exit_save(store[p], file)
       IN  /\ file' = r.file
           /\ store' = [store EXCEPT ![p] = r.st]
           /\ saved' = [saved EXCEPT ![p] = r.saved]
    /\ pc' = [pc EXCEPT ![p] = "finally"]
    /\ outcome' = [outcome EXCEPT ![p] = "clean"]
    /\ UNCHANGED <<lock, entryFile, lastDone, errmsg, mutated>>
    /\ FileOnly

\* The block exits cleanly, the store is dirty and save() raises (the
\* write of the temporary file or its rename fails): the file is as before.
SaveFail(p) ==
    /\ pc[p] = "block"
    /\ store[p].dirty
    /\ pc' = [pc EXCEPT ![p] = "finally"]
    /\ outcome' = [outcome EXCEPT ![p] = "SaveError"]
    /\ saved' = [saved EXCEPT ![p] = TRUE]
    /\ UNCHANGED <<lock, file, store, entryFile, lastDone, errmsg, mutated>>
    /\ FileOnly

\* The file a raising block leaves behind, were it saved like a clean one.
raise_saves(st, f) == exit_save(st, f).file

\* except: raise -- nothing is written.
raise_file(st, f) == f

\* The caller's block raises.
Raise(p) ==
    /\ pc[p] = "block"
    /\ file' = raise_file(store[p], file)
    /\ pc' = [pc EXCEPT ![p] = "finally"]
    /\ outcome' = [outcome EXCEPT ![p] = "BlockError"]
    /\ UNCHANGED <<lock, store, entryFile, saved, lastDone, errmsg, mutated>>
    /\ FileOnly

\* The config load() gave the process that is in its block.
Loaded(p) == File_load(File_init, entryFile[p]).st.config

\* finally: lock.release(); open() returns or re-raises, and the
\* ConfigurationFile goes out of scope.
Release(p) ==
    /\ pc[p] = "finally"
    /\ lock' = release(lock, p)
    /\ pc' = [pc EXCEPT ![p] = "done"]
    /\ lastDone' = IF outcome[p] \in {"clean", "BlockError"}
                   THEN [outcome |-> outcome[p], loaded |-> Loaded(p),
                         config |-> store[p].config]
                   ELSE lastDone
    /\ store' = [store EXCEPT ![p] = File_init]
    /\ entryFile' = [entryFile EXCEPT ![p] = AbsentFile]
    /\ saved' = [saved EXCEPT ![p] = FALSE]
    /\ mutated' = [mutated EXCEPT ![p] = FALSE]
    /\ UNCHANGED <<file, outcome, errmsg>>
    /\ FileOnly

FileNext ==
    \E p \in Procs :
        \/ Open(p)
        \/ Acquire(p)
        \/ AcquireTimeout(p)
        \/ Touch(p)
        \/ TouchFail(p)
        \/ Load(p)
        \/ \E name \in Names, data \in StoreValues : SetItem(p, name, data)
        \/ \E name \in Names : DelItem(p, name)
        \/ ExitClean(p)
        \/ SaveFail(p)
        \/ Raise(p)
        \/ Release(p)

(***************************************************************************)
(* Properties of the file backend.                                         *)
(***************************************************************************)
\* A process is between its lock acquisition and its lock release.
InOpen(p) == pc[p] \in {"locked", "touched", "block", "finally"}

\* C1: at most one process is ever between a successful lock.acquire and
\* its lock.release (in touch, load, the block or save), and that process
\* is the holder of the lock: no opener proceeds while another holds it.
C1_MutualExclusion ==
    /\ \A p, q \in Procs : InOpen(p) /\ InOpen(q) => p = q
    /\ \A p \in Procs : InOpen(p) => lock = p

\* One process is in its block while another's open() has failed with
\* LockTimeout.
C1_Witness ==
    \E p, q \in Procs :
        /\ p # q
        /\ pc[p] = "block"
        /\ pc[q] = "done"
        /\ outcome[q] = "LockTimeout"

C3_BlockErrorDiscards ==
    /\ \A p \in Procs :
           pc[p] = "finally" /\ outcome[p] = "BlockError"
               => ~saved[p] /\ file = entryFile[p]
    /\ \A p \in Procs :
           pc[p] = "block" /\ lastDone.outcome = "BlockError"
               => Loaded(p) = lastDone.loaded

\* A block that had changed its config raised, and the next open() has
\* loaded.
C3_Witness ==
    \E p \in Procs :
        /\ pc[p] = "block"
        /\ lastDone.outcome = "BlockError"
        /\ lastDone.config # lastDone.loaded

\* C4: a process that is not inside open() does not hold the lock, however
\* its open() ended (cleanly with or without a save, by an error of the
\* block, of load, of touch or of save); the lock is held only by a process
\* inside open().
C4_LockReleasedOnEveryExit ==
    /\ \A p \in Procs : pc[p] \in {"idle", "done"} => lock # p
    /\ lock # NoProc => InOpen(lock)

\* An open() was ended by a failing save, and another process has acquired
\* the lock since.
C4_Witness ==
    \E p, q \in Procs :
        /\ pc[p] = "done"
        /\ outcome[p] = "SaveError"
        /\ lock = q

\* C12: an open() of a file whose document is neither a mapping nor empty
\* (a bare scalar, a list) ends with load's ValueError, which names the path
\* and the value parsed; the block is not entered (a block is only ever
\* entered on a mapping or an empty document), nothing is saved, the file
\* still holds the document the error names, and the opener does not keep
\* the lock.
C12_NotAMapping ==
    \A p \in Procs :
        /\ pc[p] = "block" => yaml_safe_load(entryFile[p][2])[1] \in {"none", "dict"}
        /\ outcome[p] = "FormatError" =>
               /\ pc[p] \in {"finally", "done"}
               /\ errmsg[p].path = Path
               /\ yaml_safe_load(file[2]) = <<"other", errmsg[p].value>>
               /\ store[p] = File_init
               /\ entryFile[p] = AbsentFile
               /\ ~saved[p]
               /\ pc[p] = "done" => lock # p
        /\ (pc[p] = "finally" /\ file # AbsentFile /\ yaml_safe_load(file[2])[1] = "other")
               => outcome[p] \in {"FormatError", "TouchError"}

\* One open() of a file that holds a bare scalar has ended with the
\* ValueError and another process holds the lock.
C12_Witness ==
    \E p, q \in Procs :
        /\ pc[p] = "done"
        /\ outcome[p] = "FormatError"
        /\ errmsg[p].value = PyStr(<<"h", "e", "l", "l", "o">>)
        /\ file = ScalarFile
        /\ lock = q

\* C15: inside the block dirty is True exactly when an entry has been set
\* or an existing entry deleted since load(), so load() leaves it False; a
\* clean exit runs save() exactly when there was such a change, the file
\* then holds the dump of the config and dirty is False again, and
\* otherwise the file is the one the block was entered with.
C15_DirtyFlag ==
    \A p \in Procs :
        /\ pc[p] = "block" => (store[p].dirty <=> mutated[p])
        /\ (pc[p] = "finally" /\ outcome[p] = "clean") =>
               /\ ~store[p].dirty
               /\ saved[p] <=> mutated[p]
               /\ file = IF mutated[p]
                         THEN <<"text", yaml_safe_dump(store[p].config)>>
                         ELSE entryFile[p]

\* A block set an entry to the value it had and exited cleanly: the file was
\* written again.
C15_Witness ==
    \E p \in Procs :
        /\ pc[p] = "finally"
        /\ outcome[p] = "clean"
        /\ saved[p]
        /\ store[p].config = Loaded(p)
        /\ store[p].config # EmptyDict

\* FileLock.acquire(timeout=5) returns or raises once the lock is free or
\* the timeout is over: a process does not stay in it for ever.
AcquireEnds == \A p \in Procs : WF_fvars(Acquire(p) \/ AcquireTimeout(p))

\* C16: a process that waits for the lock stops waiting, with the lock or
\* with LockTimeout; the step that raises LockTimeout ends open() (there
\* is no second attempt) and leaves the lock with its holder and the file
\* as it is; and an open() that ended so has created no ConfigurationFile,
\* loaded and saved nothing, entered no block and holds no lock.
C16_BoundedLockWait ==
    /\ \A p \in Procs : []<>(pc[p] # "acquiring")
    /\ [][\A p \in Procs :
             (pc[p] = "acquiring" /\ outcome'[p] = "LockTimeout") =>
                 /\ lock \notin {NoProc, p}
                 /\ lock' = lock
                 /\ file' = file
                 /\ pc'[p] = "done"]_fvars
    /\ [](\A p \in Procs :
             outcome[p] = "LockTimeout" =>
                 /\ pc[p] = "done"
                 /\ lock # p
                 /\ store[p] = File_init
                 /\ entryFile[p] = AbsentFile
                 /\ ~saved[p]
                 /\ ~mutated[p])

\* An open() has ended with LockTimeout on a path that has no file yet,
\* while the holder of the lock is still before its touch().
C16_Witness ==
    \E p, q \in Procs :
        /\ p # q
        /\ pc[p] = "done"
        /\ outcome[p] = "LockTimeout"
        /\ lock = q
        /\ pc[q] = "locked"
        /\ file = AbsentFile

\* The entry of a name in a mapping, or that it has none.
EntryOf(config, name) ==
    IF name \in DOMAIN config THEN <<"set", config[name]>> ELSE <<"absent">>

\* The mapping stored in a file.
Stored(f) == File_load(File_init, f).st.config

C34_ReadOnlyBlockWritesNothing ==
    /\ [](\A p \in Procs :
            /\ pc[p] = "block" => file = entryFile[p]
            /\ (pc[p] = "finally" /\ outcome[p] = "clean" /\ ~mutated[p]) =>
                   /\ ~saved[p]
                   /\ file = entryFile[p])
    /\ [][\A p \in Procs :
            (pc[p] = "locked" /\ pc'[p] = "touched") =>
                file' = IF file = AbsentFile THEN EmptyFile ELSE file]_vars
    /\ [][\A p \in Procs :
            (pc[p] = "touched" /\ pc'[p] = "block") => file' = file]_vars

\* A block that changed nothing has exited cleanly on a file that holds a
\* mapping.
C34_Witness ==
    \E p \in Procs :
        /\ pc[p] = "finally"
        /\ outcome[p] = "clean"
        /\ ~mutated[p]
        /\ Stored(file) # EmptyDict
        /\ file = entryFile[p]

(***************************************************************************)
(* JSON as used by the database backend (json.dumps / json.loads).         *)
(***************************************************************************)
DoubleQuote == "\""

json_dumps(v) ==
    IF IsInt(v) THEN IntToText(v[2])
    ELSE <<DoubleQuote>> \o TextOf(v) \o <<DoubleQuote>>

json_loads(t) ==
    IF IsDigits(t) THEN PyInt(TextToInt(t))
    ELSE PyStr(SubSeq(t, 2, Len(t) - 1))

(***************************************************************************)
(* The table configuration (id INTEGER PRIMARY KEY, name TEXT NOT NULL     *)
(* UNIQUE, data BLOB): a set of rows [id, name, data].                     *)
(***************************************************************************)
\* The largest row id the model lets the table reach.
MaxRowId == 2

RowIds(rows) == {r.id : r \in rows}

\* The id sqlite gives a new row: one more than the largest in the table.
NewRowId(rows) ==
    IF rows = {} THEN 1
    ELSE (CHOOSE i \in RowIds(rows) : \A j \in RowIds(rows) : j <= i) + 1

\* INSERT into a table whose name column is not UNIQUE.
Db_setitem_not_unique(rows, name, data) ==
    rows \cup {[id |-> NewRowId(rows), name |-> name, data |-> json_dumps(data)]}

\* INSERT OR REPLACE INTO configuration (name, data) VALUES (?, ?): the row
\* that holds the name, if any, is deleted and the new row inserted.
Db_setitem(rows, name, data) ==
    {r \in rows : r.name # name}
        \cup {[id |-> NewRowId(rows), name |-> name, data |-> json_dumps(data)]}

\* DELETE FROM configuration WHERE name = ?
Db_delitem(rows, name) == {r \in rows : r.name # name}

\* __getitem__ that returns the column as it is stored, not parsed.
Db_getitem_raw(rows, name) ==
    IF \A r \in rows : r.name # name THEN <<"KeyError">>
    ELSE <<"ok", PyStr((CHOOSE r \in rows : r.name = name).data)>>

\* SELECT data FROM configuration WHERE name = ? ... fetchone():
\* <<"KeyError">> or <<"ok", value>>.
Db_getitem(rows, name) ==
    IF \A r \in rows : r.name # name THEN <<"KeyError">>
    ELSE <<"ok", json_loads((CHOOSE r \in rows : r.name = name).data)>>

\* SELECT name FROM configuration: the names, one per row.
Db_iter(rows) == {r.name : r \in rows}

(***************************************************************************)
(* ConfigurationDatabase.open run by the processes of Procs on one dbpath. *)
(*                                                                         *)
(* sqlite3 (Python 2): an INSERT or DELETE opens a transaction, which      *)
(* takes the database's write lock; the transaction's changes are seen by  *)
(* its own connection only, until commit(); close() without commit() rolls *)
(* the transaction back.  CREATE TABLE runs outside any transaction.       *)
(***************************************************************************)

\* The entries of a table as a dict: each name with its parsed value.
DbEntries(rows) == [n \in Db_iter(rows) |-> Db_getitem(rows, n)[2]]

\* dlast: how the open() ended and whether it had set or deleted anything;
\* for a block that raised, the committed entries before it ended; for a
\* clean one, the names it set with their last values, and whether it set a
\* name twice; and the calls open() made on the connection as it ended.
NoBlock == [outcome |-> "none", entries |-> EmptyDict, wrote |-> FALSE,
            twice |-> FALSE, calls |-> <<>>]

\* The rows a database may hold before any process opens it.
InitialRows ==
    {[id |-> 1, name |-> "tftp_port", data |-> json_dumps(PyInt(69))]}

DbIdle ==
    /\ dbWriter = NoProc
    /\ dbTxn = {}
    /\ dpc = [p \in Procs |-> "idle"]
    /\ dsets = EmptyDict
    /\ dtwice = FALSE
    /\ dlast = NoBlock

DbInit ==
    /\ \/ dbState = "absent" /\ dbRows = {}
       \/ dbState = "table" /\ dbRows = InitialRows
    /\ DbIdle

\* Connections that read the rows of a transaction not yet committed.
DbView_uncommitted(p) == IF dbWriter # NoProc THEN dbTxn ELSE dbRows

\* The rows the connection of p sees.
DbView(p) == IF dbWriter = p THEN dbTxn ELSE dbRows

\* A constructor that makes the table anew.
Db_init_recreating(state, rows) == [state |-> "table", rows |-> {}]

\* ConfigurationDatabase.__init__: CREATE TABLE IF NOT EXISTS
\* configuration; the table and the rows after it.
Db_init(state, rows) == [state |-> "table", rows |-> rows]

\* touch(dbpath); database = sqlite3.connect(dbpath)
DbOpen(p) ==
    /\ dpc[p] = "idle"
    /\ dbState' = IF dbState = "absent" THEN "notable" ELSE dbState
    /\ dpc' = [dpc EXCEPT ![p] = "connected"]
    /\ UNCHANGED <<dbRows, dbWriter, dbTxn, dsets, dtwice, dlast>>
    /\ DbOnly

\* cls(database): CREATE TABLE IF NOT EXISTS configuration; the block is
\* entered.
DbCreate(p) ==
    /\ dpc[p] = "connected"
    /\ dbState' = Db_init(dbState, dbRows).state
    /\ dbRows' = Db_init(dbState, dbRows).rows
    /\ dpc' = [dpc EXCEPT ![p] = "block"]
    /\ UNCHANGED <<dbWriter, dbTxn, dsets, dtwice, dlast>>
    /\ DbOnly

\* Inside the block: store[name] = data.  Another process's open
\* transaction makes the statement wait.
DbSetItem(p, name, data) ==
    /\ dpc[p] = "block"
    /\ dbWriter \in {NoProc, p}
    /\ NewRowId(DbView(p)) <= MaxRowId
    /\ dbTxn' = Db_setitem(DbView(p), name, data)
    /\ dbWriter' = p
    /\ dtwice' = (dtwice \/ (name \in DOMAIN dsets /\ dsets[name] # data))
    /\ dsets' = DictSet(dsets, name, data)
    /\ UNCHANGED <<dbState, dbRows, dpc, dlast>>
    /\ DbOnly

\* Inside the block: del store[name].
DbDelItem(p, name) ==
    /\ dpc[p] = "block"
    /\ dbWriter \in {NoProc, p}
    /\ dbTxn' = Db_delitem(DbView(p), name)
    /\ dbWriter' = p
    /\ dsets' = DictDel(dsets, name)
    /\ UNCHANGED <<dbState, dbRows, dpc, dtwice, dlast>>
    /\ DbOnly

\* The rows committed when open() ends by an exception, were commit() in
\* the finally clause.
Db_raise_commits(rows, txn) == txn

\* except: raise; finally: database.close() -- no commit.
Db_raise(rows, txn) == rows

\* else: database.commit()
Db_commit(rows, txn) == txn

\* open() with database.close() at the end of the else clause.
open_exit_close_in_else(how) ==
    IF how = "clean" THEN <<"commit", "close">>
    ELSE IF how = "CommitError" THEN <<"commit">>
    ELSE <<>>

\* The calls open() makes on the connection once cls(database) or the
\* block has ended: "clean" (the block exited and commit() returned),
\* "CommitError" (the block exited and commit() raised), "BlockError" (the
\* block raised), "CreateError" (cls(database) raised).  The else clause
\* commits; the finally clause closes.
open_exit(how) ==
    IF how \in {"clean", "CommitError"} THEN <<"commit", "close">>
    ELSE <<"close">>

\* The end of open(): database.close() ends the connection's transaction,
\* if any; a connection that is not closed stays as it is, left open.
DbClose(p, how) ==
    LET closed == \E i \in DOMAIN open_exit(how) : open_exit(how)[i] = "close"
        mine == closed /\ dbWriter = p
    IN  /\ dbWriter' = IF mine THEN NoProc ELSE dbWriter
        /\ dbTxn' = IF mine THEN {} ELSE dbTxn
        /\ dsets' = IF mine THEN EmptyDict ELSE dsets
        /\ dtwice' = IF mine THEN FALSE ELSE dtwice
        /\ dpc' = [dpc EXCEPT ![p] = IF closed THEN "idle" ELSE "leaked"]
        /\ UNCHANGED dbState

\* cls(database) raises: CREATE TABLE fails, and open() ends before the
\* block is entered.
DbCreateFail(p) ==
    /\ dpc[p] = "connected"
    /\ dlast' = [outcome |-> "CreateError", entries |-> EmptyDict,
                 wrote |-> FALSE, twice |-> FALSE,
                 calls |-> open_exit("CreateError")]
    /\ UNCHANGED dbRows
    /\ DbClose(p, "CreateError")
    /\ DbOnly

\* The block exits cleanly and database.commit() raises: nothing of the
\* transaction is committed.
DbCommitFail(p) ==
    /\ dpc[p] = "block"
    /\ dbWriter = p
    /\ dlast' = [outcome |-> "CommitError", entries |-> EmptyDict,
                 wrote |-> TRUE, twice |-> FALSE,
                 calls |-> open_exit("CommitError")]
    /\ UNCHANGED dbRows
    /\ DbClose(p, "CommitError")
    /\ DbOnly

\* The block exits cleanly: database.commit(); database.close().
DbExitClean(p) ==
    /\ dpc[p] = "block"
    /\ dbRows' = Db_commit(dbRows, DbView(p))
    /\ dlast' = [outcome |-> "clean",
                 entries |-> IF dbWriter = p THEN dsets ELSE EmptyDict,
                 wrote |-> dbWriter = p,
                 twice |-> dbWriter = p /\ dtwice,
                 calls |-> open_exit("clean")]
    /\ DbClose(p, "clean")
    /\ DbOnly

\* The block raises: database.close().
DbRaise(p) ==
    /\ dpc[p] = "block"
    /\ dbRows' = Db_raise(dbRows, DbView(p))
    /\ dlast' = [outcome |-> "BlockError",
                 entries |-> DbEntries(dbRows),
                 wrote |-> DbView(p) # dbRows,
                 twice |-> FALSE,
                 calls |-> open_exit("BlockError")]
    /\ DbClose(p, "BlockError")
    /\ DbOnly

DbNext ==
    \E p \in Procs :
        \/ DbOpen(p)
        \/ DbCreate(p)
        \/ DbCreateFail(p)
        \/ DbCommitFail(p)
        \/ \E name \in Names, data \in StoreValues : DbSetItem(p, name, data)
        \/ \E name \in Names : DbDelItem(p, name)
        \/ DbExitClean(p)
        \/ DbRaise(p)

(***************************************************************************)
(* Properties of the database backend.                                     *)
(***************************************************************************)
\* C5: after a block from which an exception propagated, the committed
\* entries -- what a fresh open reads -- are exactly those committed before
\* the block ended: none of its sets and deletes is among them.
C5_FailedBlockDiscarded ==
    dlast.outcome = "BlockError" => DbEntries(dbRows) = dlast.entries

\* A block that had set or deleted an entry raised, and a fresh open is in
\* its block.
C5_Witness ==
    /\ dlast.outcome = "BlockError"
    /\ dlast.wrote
    /\ \E p \in Procs : dpc[p] = "block" /\ dbWriter # p

UniqueNames(rows) == \A r1, r2 \in rows : r1.name = r2.name => r1 = r2

\* C6: the table, committed or as a transaction sees it, holds at most one
\* row per name; after a clean exit every name the block set has exactly one
\* row, and reading it gives the last value set.
C6_Upsert ==
    /\ UniqueNames(dbRows)
    /\ UniqueNames(dbTxn)
    /\ dlast.outcome = "clean" =>
           \A n \in DOMAIN dlast.entries :
               /\ Cardinality({r \in dbRows : r.name = n}) = 1
               /\ Db_getitem(dbRows, n) = <<"ok", dlast.entries[n]>>

\* A block that set one name twice, to different values, exited cleanly, and
\* a fresh open is in its block.
C6_Witness ==
    /\ dlast.outcome = "clean"
    /\ dlast.twice
    /\ \E p \in Procs : dpc[p] = "block" /\ dbWriter # p

\* The number of times call is among calls.
Count(calls, call) == Cardinality({i \in DOMAIN calls : calls[i] = call})

\* C24: an open() whose block exited without an exception called commit()
\* once, and when commit() returned the transaction's rows are the
\* committed ones; an open() whose block raised ends with the block's
\* exception, has not called commit() and has left the committed rows as
\* they were; and however open() ended -- CREATE TABLE or commit() failing
\* included -- close() was its last call on the connection, so that no
\* process is outside open() with its connection open.
C24_CommitOnceCloseAlways ==
    /\ dlast.outcome \in {"clean", "CommitError"} => Count(dlast.calls, "commit") = 1
    /\ dlast.outcome \in {"BlockError", "CreateError"} => Count(dlast.calls, "commit") = 0
    /\ dlast.outcome # "none" =>
           /\ Count(dlast.calls, "close") = 1
           /\ dlast.calls[Len(dlast.calls)] = "close"
    /\ \A p \in Procs : dpc[p] # "leaked"
    /\ dbWriter # NoProc => dpc[dbWriter] = "block"

\* The last open() ended by a failing CREATE TABLE, on a database in which
\* a block had committed, and no connection is left open: every process is
\* outside open().
C24_Witness ==
    /\ dlast.outcome = "CreateError"
    /\ dbRows \notin {{}} \cup {InitialRows}
    /\ \A p \in Procs : dpc[p] = "idle"
    /\ dbWriter = NoProc

C38_OpenKeepsRows ==
    /\ [](UniqueNames(dbRows))
    /\ [][\A p \in Procs :
             (\/ dpc[p] = "idle" /\ dpc'[p] = "connected"
              \/ dpc[p] = "connected" /\ dpc'[p] = "block") =>
                 /\ dbRows' = dbRows
                 /\ dbState = "table" => dbState' = "table"]_vars
    /\ [][\A p \in Procs :
             (dpc[p] = "block" /\ dpc'[p] = "idle" /\ dbWriter # p
                 /\ dlast'.outcome = "clean") =>
                 /\ dbRows' = dbRows
                 /\ DbEntries(dbRows') = DbEntries(dbRows)]_vars

\* A block that neither set nor deleted anything has exited cleanly on a
\* database that holds the entries it held before any open().
C38_Witness ==
    /\ dlast.outcome = "clean"
    /\ ~dlast.wrote
    /\ dbRows = InitialRows
    /\ \A p \in Procs : dpc[p] = "idle"

(***************************************************************************)
(* The process-wide parse cache: ConfigBase._cache, _cache_lock,           *)
(* load_from_cache and flush_cache, called by the threads of Procs.        *)
(*                                                                         *)
(* A validated document is a dict with a nested dict:                      *)
(*     [logfile |-> l, tftp |-> [port |-> n]].                             *)
(* In memory it is two objects, the outer dict and the nested one; a value *)
(* is a handle [top |-> object, nested |-> object] on the objects that hold *)
(* it, so that two values may share objects.  The cache keeps the objects  *)
(* of the entry for path f at <<"cache", f>>, and the value a thread was   *)
(* returned lives at <<"thread", t>> when it is a copy of its own.         *)
(***************************************************************************)
\* The file names load_from_cache is called with, and os.path.abspath of
\* each (the working directory is /etc/maas).
Filenames == {"pserv.yaml", "/etc/maas/pserv.yaml", "/etc/maas/sources.yaml"}

abspath(filename) ==
    IF filename = "pserv.yaml" THEN "/etc/maas/pserv.yaml" ELSE filename

Paths == {abspath(f) : f \in Filenames}

Missing == <<"missing">>
Invalid == <<"invalid">>
DocA == [logfile |-> "pserv.log", tftp |-> [port |-> PyInt(69)]]
DocB == [logfile |-> "sources.log", tftp |-> [port |-> PyInt(5069)]]

\* A parse that takes a document that does not validate for a valid one.
parse_accepting(content) ==
    IF content = Invalid THEN <<"ok", DocA>> ELSE <<"ok", content[2]>>

\* cls.parse(stream) on an open file: <<"Invalid">> when the document does
\* not validate, <<"ok", document>> otherwise.
parse(content) ==
    IF content = Invalid THEN <<"Invalid">> ELSE <<"ok", content[2]>>

Slots == {<<"cache", f>> : f \in Paths} \cup {<<"thread", t>> : t \in Procs}
\* An object nobody holds, a thread that holds no value, and no document.
Free == "free"
FreeNested == <<"free">>
NoValue == [top |-> <<"none">>, nested |-> <<"none">>]
NoDoc == [logfile |-> Free, tftp |-> [port |-> FreeNested]]

\* The most opens of one path the model counts: the count stops there.
MaxOpens == 2

Deref(h) == [logfile |-> tops[h.top], tftp |-> [port |-> nesteds[h.nested]]]

\* flushed when no flush_cache has been called, and after flush_cache().
NoFlush == "<none>"
AllFiles == "<all>"

CacheIdle ==
    /\ cache = EmptyDict
    /\ cacheLock = NoProc
    /\ cdepth = 0
    /\ tops = [s \in Slots |-> Free]
    /\ nesteds = [s \in Slots |-> FreeNested]
    /\ cpc = [t \in Procs |-> "idle"]
    /\ cpath = [t \in Procs |-> "/etc/maas/pserv.yaml"]
    /\ held = [t \in Procs |-> NoValue]
    /\ expected = [t \in Procs |-> NoDoc]
    /\ parsedDoc = EmptyDict
    /\ opens = [f \in Paths |-> 0]
    /\ reopened = [f \in Paths |-> FALSE]
    /\ flushed = NoFlush

CacheInit ==
    /\ disk \in {[f \in Paths |-> IF f = "/etc/maas/sources.yaml"
                                   THEN <<"valid", DocB>> ELSE c] :
                    c \in {Missing, Invalid, <<"valid", DocA>>}}
    /\ CacheIdle

\* with cls._cache_lock entered without waiting for the lock.
lock_enter_unlocked(owner, t) == TRUE

\* with cls._cache_lock on a lock that its own holder cannot enter again.
lock_enter_exclusive(owner, t) == owner = NoProc

\* with cls._cache_lock: the RLock is free, or held by the caller itself.
lock_enter(owner, t) == owner \in {NoProc, t}

\* A release that frees the lock however often its holder has entered it.
lock_leave_frees(owner, depth, t) ==
    IF owner # t THEN [owner |-> owner, depth |-> depth]
    ELSE [owner |-> NoProc, depth |-> 0]

\* Leaving `with cls._cache_lock`: the RLock is free once its holder has
\* left it as often as it entered it.
lock_leave(owner, depth, t) ==
    IF owner # t THEN [owner |-> owner, depth |-> depth]
    ELSE IF depth <= 1 THEN [owner |-> NoProc, depth |-> 0]
    ELSE [owner |-> owner, depth |-> depth - 1]

\* load_from_cache(filename): filename = os.path.abspath(filename); the
\* lock is entered and `filename not in cls._cache` evaluated.  The caller
\* has let go of the value it was returned before.
LoadCall(t, filename) ==
    /\ cpc[t] = "idle"
    /\ lock_enter(cacheLock, t)
    /\ cacheLock' = t
    /\ cdepth' = IF cacheLock = t THEN cdepth + 1 ELSE 1
    /\ cpath' = [cpath EXCEPT ![t] = abspath(filename)]
    /\ cpc' = [cpc EXCEPT ![t] =
                  IF abspath(filename) \in DOMAIN cache THEN "copy" ELSE "open"]
    /\ held' = [held EXCEPT ![t] = NoValue]
    /\ expected' = [expected EXCEPT ![t] = NoDoc]
    /\ tops' = [tops EXCEPT ![<<"thread", t>>] = Free]
    /\ nesteds' = [nesteds EXCEPT ![<<"thread", t>>] = FreeNested]
    /\ UNCHANGED <<disk, cache, parsedDoc, opens, reopened, flushed>>
    /\ CacheOnly

\* with open(filename, "rb") as stream: cls._cache[filename] =
\* cls.parse(stream).  A missing file (IOError) or a document that does not
\* validate (Invalid) ends the call: the lock is left, nothing is cached.
LoadOpen(t) ==
    /\ cpc[t] \in {"open", "resume"}
    /\ LET f == cpath[t]
           r == IF disk[f] = Missing THEN <<"IOError">> ELSE parse(disk[f])
       IN  /\ opens' = [opens EXCEPT ![f] =
                         IF opens[f] < MaxOpens THEN opens[f] + 1 ELSE MaxOpens]
           /\ reopened' = [reopened EXCEPT ![f] = reopened[f] \/ f \in DOMAIN parsedDoc]
           /\ IF r[1] = "ok"
              THEN /\ cache' = DictSet(cache, f,
                                       [top |-> <<"cache", f>>, nested |-> <<"cache", f>>])
                   /\ tops' = [tops EXCEPT ![<<"cache", f>>] = r[2].logfile]
                   /\ nesteds' = [nesteds EXCEPT ![<<"cache", f>>] = r[2].tftp.port]
                   /\ parsedDoc' = DictSet(parsedDoc, f, r[2])
                   /\ cpc' = [cpc EXCEPT ![t] = "copy"]
                   /\ flushed' = NoFlush
                   /\ UNCHANGED <<cacheLock, cdepth>>
              ELSE /\ cpc' = [cpc EXCEPT ![t] = "idle"]
                   /\ cacheLock' = lock_leave(cacheLock, cdepth, t).owner
                   /\ cdepth' = lock_leave(cacheLock, cdepth, t).depth
                   /\ UNCHANGED <<cache, tops, nesteds, parsedDoc, flushed>>
    /\ UNCHANGED <<disk, cpath, held, expected>>
    /\ CacheOnly

\* The value returned by a copy of the outer dict only.
copy_shallow(h, slot) == [top |-> slot, nested |-> h.nested]

\* deepcopy(cls._cache[filename]): new objects for the outer and the nested
\* dict.
deepcopy(h, slot) == [top |-> slot, nested |-> slot]

\* return deepcopy(cls._cache[filename]); the lock is left.
LoadReturn(t) ==
    /\ cpc[t] = "copy"
    /\ LET h == cache[cpath[t]]
           c == deepcopy(h, <<"thread", t>>)
       IN  /\ held' = [held EXCEPT ![t] = c]
           /\ expected' = [expected EXCEPT ![t] = Deref(h)]
           /\ tops' = [tops EXCEPT ![<<"thread", t>>] = tops[h.top]]
           /\ nesteds' = [nesteds EXCEPT ![<<"thread", t>>] = nesteds[h.nested]]
    /\ cpc' = [cpc EXCEPT ![t] = "idle"]
    /\ cacheLock' = lock_leave(cacheLock, cdepth, t).owner
    /\ cdepth' = lock_leave(cacheLock, cdepth, t).depth
    /\ UNCHANGED <<disk, cache, cpath, parsedDoc, opens, reopened, flushed>>
    /\ CacheOnly

\* While it holds the lock in load_from_cache, before the file is parsed,
\* the thread calls flush_cache() or load_from_cache of a cached path (as
\* a validator might): the call is made, and is about to enter the lock.
NestedCall(t, call) ==
    /\ cpc[t] = "open"
    /\ call = "load_from_cache" => DOMAIN cache # {}
    /\ cpc' = [cpc EXCEPT ![t] = IF call = "flush_cache" THEN "calls flush_cache"
                                 ELSE "calls load_from_cache"]
    /\ UNCHANGED <<disk, cache, cacheLock, cdepth, tops, nesteds, cpath, held,
                   expected, parsedDoc, opens, reopened, flushed>>
    /\ CacheOnly

\* The nested call enters `with cls._cache_lock`.
NestedEnter(t) ==
    /\ cpc[t] \in {"calls flush_cache", "calls load_from_cache"}
    /\ lock_enter(cacheLock, t)
    /\ cacheLock' = t
    /\ cdepth' = IF cacheLock = t THEN cdepth + 1 ELSE 1
    /\ cpc' = [cpc EXCEPT ![t] = IF cpc[t] = "calls flush_cache"
                                 THEN "in flush_cache"
                                 ELSE "in load_from_cache"]
    /\ UNCHANGED <<disk, cache, tops, nesteds, cpath, held, expected,
                   parsedDoc, opens, reopened, flushed>>
    /\ CacheOnly

\* The nested call does its work and leaves the lock: flush_cache() clears
\* the cache; load_from_cache of a cached path returns a copy, which the
\* caller drops.  The outer load_from_cache goes on.
NestedLeave(t) ==
    /\ cpc[t] \in {"in flush_cache", "in load_from_cache"}
    /\ IF cpc[t] = "in flush_cache"
       THEN /\ cache' = EmptyDict
            /\ parsedDoc' = EmptyDict
            /\ flushed' = AllFiles
            /\ opens' = [f \in Paths |-> 0]
            /\ reopened' = [f \in Paths |-> FALSE]
       ELSE UNCHANGED <<cache, parsedDoc, flushed, opens, reopened>>
    /\ cacheLock' = lock_leave(cacheLock, cdepth, t).owner
    /\ cdepth' = lock_leave(cacheLock, cdepth, t).depth
    /\ cpc' = [cpc EXCEPT ![t] = "resume"]
    /\ UNCHANGED <<disk, tops, nesteds, cpath, held, expected>>
    /\ CacheOnly

\* flush_cache(filename): with the lock, the entry whose key is filename is
\* deleted if there is one.
FlushOne(t, filename) ==
    /\ cpc[t] = "idle"
    /\ lock_enter(cacheLock, t)
    /\ cache' = DictDel(cache, filename)
    /\ parsedDoc' = DictDel(parsedDoc, filename)
    /\ flushed' = filename
    /\ opens' = [f \in Paths |-> 0]
    /\ reopened' = [f \in Paths |-> FALSE]
    /\ UNCHANGED <<disk, cacheLock, cdepth, tops, nesteds, cpc, cpath, held,
                   expected>>
    /\ CacheOnly

\* flush_cache(): with the lock, cls._cache.clear().
FlushAll(t) ==
    /\ cpc[t] = "idle"
    /\ lock_enter(cacheLock, t)
    /\ cache' = EmptyDict
    /\ parsedDoc' = EmptyDict
    /\ flushed' = AllFiles
    /\ opens' = [f \in Paths |-> 0]
    /\ reopened' = [f \in Paths |-> FALSE]
    /\ UNCHANGED <<disk, cacheLock, cdepth, tops, nesteds, cpc, cpath, held,
                   expected>>
    /\ CacheOnly

\* The caller changes the value it was returned in place: an entry of the
\* outer dict.
MutateTop(t) ==
    /\ cpc[t] = "idle"
    /\ held[t] # NoValue
    /\ tops' = [tops EXCEPT ![held[t].top] = "changed.log"]
    /\ expected' = [expected EXCEPT ![t].logfile = "changed.log"]
    /\ UNCHANGED <<disk, cache, cacheLock, cdepth, nesteds, cpc, cpath, held,
                   parsedDoc, opens, reopened, flushed>>
    /\ CacheOnly

\* The caller changes the value it was returned in place: an entry of the
\* nested dict.
MutateNested(t) ==
    /\ cpc[t] = "idle"
    /\ held[t] # NoValue
    /\ nesteds' = [nesteds EXCEPT ![held[t].nested] = PyInt(0)]
    /\ expected' = [expected EXCEPT ![t].tftp.port = PyInt(0)]
    /\ UNCHANGED <<disk, cache, cacheLock, cdepth, tops, cpc, cpath, held,
                   parsedDoc, opens, reopened, flushed>>
    /\ CacheOnly

CacheNext ==
    \E t \in Procs :
        \/ \E filename \in Filenames : LoadCall(t, filename)
        \/ LoadOpen(t)
        \/ LoadReturn(t)
        \/ \E filename \in Filenames : FlushOne(t, filename)
        \/ FlushAll(t)
        \/ MutateTop(t)
        \/ MutateNested(t)
        \/ \E call \in {"flush_cache", "load_from_cache"} : NestedCall(t, call)
        \/ NestedEnter(t)
        \/ NestedLeave(t)

(***************************************************************************)
(* The Configuration facade: ClusterConfiguration over a ConfigurationFile  *)
(* store, used by one process.                                             *)
(***************************************************************************)
\* The ConfigurationOption descriptors of ClusterConfiguration, the other
\* attributes of the class, the attribute __init__ gives the instance, and
\* a name that is none of these.
OptionNames == {"maas_url", "tftp_port", "tftp_root"}
ClassAttrs == {"open", "DEFAULT_FILENAME"}
InstanceAttrs == {"store"}
AttrNames == OptionNames \cup ClassAttrs \cup InstanceAttrs \cup {"tftp_prot"}

\* Number(min=0, max=(2 ** 16) - 1)
MinPort == 0
MaxPort == 65535

\* The texts of this model that hold a character outside ASCII, and the
\* bytes of that character in UTF-8.
NonAscii == {"U+00E9", "0xC3", "0xA9"}
IsAscii(chars) == \A i \in DOMAIN chars : chars[i] \notin NonAscii

\* unicode.encode("utf-8")
RECURSIVE Utf8(_)
Utf8(chars) ==
    IF chars = <<>> THEN <<>>
    ELSE (IF Head(chars) = "U+00E9" THEN <<"0xC3", "0xA9">> ELSE <<Head(chars)>>)
             \o Utf8(Tail(chars))

\* a == b in Python 2: a unicode text and a byte string are equal when both
\* are ASCII and hold the same characters.
PyEq(a, b) ==
    \/ a = b
    \/ /\ {a[1], b[1]} = {"str", "bytes"}
       /\ a[2] = b[2]
       /\ IsAscii(a[2])

Scheme == "http://"
Url == PyStr(<<Scheme, "example.com/MAAS">>)
BareUrl == PyStr(<<"example.com/MAAS">>)
NotUrl == PyStr(<<"not a url">>)
Dir == PyStr(<<"/var/lib/maas">>)
DirNonAscii == PyStr(<<"/srv/caf", "U+00E9">>)
NotDir == PyStr(<<"/nonexistent">>)

\* os.path.isdir(value): the directories that exist.
isdir(value) == value \in {Dir, DirNonAscii}

\* The values the caller assigns to an option, and to any other name.
FacadeValues ==
    {PyInt(5069), PyStr(<<"5", "0", "6", "9">>), PyInt(70000),
     Url, BareUrl, Dir, DirNonAscii}

ValuesFor(name) == IF name \in OptionNames THEN FacadeValues ELSE {PyInt(5069)}

\* validator.if_missing of each option.
DefaultUrl == PyStr(<<Scheme, "localhost:5240/MAAS">>)
DefaultPort == PyInt(69)
DefaultRoot == PyStr(<<"/var/lib/maas/boot-resources/current">>)

if_missing(name) ==
    IF name = "maas_url" THEN DefaultUrl
    ELSE IF name = "tftp_port" THEN DefaultPort
    ELSE DefaultRoot

\* to_python that converts nothing and rejects nothing.
to_python_accepting(name, value) == <<"ok", value>>

\* validator.to_python(value) of each option: <<"ok", v>> or <<"Invalid">>.
\* Number takes a number or its text and checks the range; ExtendedURL takes
\* a text, puts http:// before one that has no scheme (add_http) and matches
\* it against url_re; Directory takes the text of a directory that exists.
to_python(name, value) ==
    IF name = "tftp_port"
    THEN LET n == IF IsInt(value) THEN value[2]
                  ELSE IF IsDigits(value[2]) THEN TextToInt(value[2])
                  ELSE MinPort - 1
         IN  IF MinPort <= n /\ n <= MaxPort THEN <<"ok", PyInt(n)>> ELSE <<"Invalid">>
    ELSE IF name = "maas_url"
    THEN IF value = Url THEN <<"ok", value>>
         ELSE IF value = BareUrl THEN <<"ok", PyStr(<<Scheme>> \o value[2])>>
         ELSE <<"Invalid">>
    ELSE IF isdir(value) THEN <<"ok", value>> ELSE <<"Invalid">>

\* from_python that gives every value in its text form.
from_python_text(name, value) ==
    IF IsInt(value) THEN PyStr(IntToText(value[2])) ELSE value

\* validator.from_python(value) of each option.  Number and ExtendedURL have
\* no conversion of their own and nothing is validated: the value comes back
\* as it is; Directory is a UnicodeString, which encodes a text to UTF-8.
from_python(name, value) ==
    IF name = "tftp_root" /\ IsStr(value) THEN PyBytes(Utf8(value[2]))
    ELSE value

\* hasattr replaced by a test that lets every name through.
hasattr_any(name) == TRUE

\* hasattr(self.__class__, name)
hasattr_class(name) == name \in OptionNames \cup ClassAttrs

\* ConfigurationOption.__get__ with if_missing converted like an entry.
Option_get_converted(st, name) ==
    IF name \in DOMAIN st.config
    THEN from_python(name, st.config[name])
    ELSE from_python(name, if_missing(name))

\* ConfigurationOption.__get__ with the store's entry ignored.
Option_get_default(st, name) == if_missing(name)

\* ConfigurationOption.__get__(obj): obj.store[self.name] converted by
\* from_python, or if_missing as it is when the store raises KeyError.
Option_get(st, name) ==
    IF name \in DOMAIN st.config
    THEN from_python(name, st.config[name])
    ELSE if_missing(name)

\* __setattr__ whose __set__ stores from_python(value), which validates
\* nothing.
Configuration_setattr_from_python(obj, name, value) ==
    IF hasattr_class(name)
    THEN IF name \in OptionNames
         THEN [store |-> File_setitem(obj.store, name, from_python(name, value)),
               inst |-> obj.inst, result |-> "ok"]
         ELSE [store |-> obj.store, inst |-> DictSet(obj.inst, name, value),
               result |-> "ok"]
    ELSE [store |-> obj.store, inst |-> obj.inst, result |-> "AttributeError"]

\* Configuration.__setattr__(name, value) on obj = [store, inst]: the object
\* after and the result.  object.__setattr__ calls the __set__ of a
\* ConfigurationOption, and puts any other name in the instance's __dict__.
Configuration_setattr(obj, name, value) ==
    IF hasattr_class(name)
    THEN IF name \in OptionNames
         THEN LET r == to_python(name, value)
              IN  IF r[1] = "ok"
                  THEN [store |-> File_setitem(obj.store, name, r[2]),
                        inst |-> obj.inst, result |-> "ok"]
                  ELSE [store |-> obj.store, inst |-> obj.inst,
                        result |-> "Invalid"]
         ELSE [store |-> obj.store, inst |-> DictSet(obj.inst, name, value),
               result |-> "ok"]
    ELSE [store |-> obj.store, inst |-> obj.inst, result |-> "AttributeError"]

\* __delete__ that stores the default in place of the entry.
Option_delete_to_default(st, name) == File_setitem(st, name, if_missing(name))

\* ConfigurationOption.__delete__(obj): del obj.store[self.name]
Option_delete(st, name) == File_delitem(st, name)

\* alast: the name, the value given (None for a deletion, the value read
\* for a read), how the statement ended and the store before it.  aprev: how
\* the block ended, whether its open() had found no file, and the store's
\* config at a clean exit.
NoAssignment ==
    [name |-> "", value |-> PyNone, result |-> "none", before |-> File_init]
NoBlockYet == [outcome |-> "none", fresh |-> FALSE, config |-> EmptyDict]

FacadeIdle ==
    /\ apc = "closed"
    /\ astore = File_init
    /\ ainst = EmptyDict
    /\ alast = NoAssignment
    /\ afresh = FALSE
    /\ adid = "nothing"
    /\ aprev = NoBlockYet

\* A file edited by hand: a port out of range and a text that is no URL.
HandEditedFile ==
    atomic_write(yaml_safe_dump(
        [k \in {"tftp_port", "maas_url"} |->
            IF k = "tftp_port" THEN PyInt(70000) ELSE NotUrl]), AbsentFile)

FacadeInit ==
    /\ afile \in InitialFiles \cup {HandEditedFile}
    /\ FacadeIdle

\* Configuration.open(filepath): the backend's open() takes the lock,
\* touches and loads the file, and the block is entered with cls(store); a
\* document that is not a mapping ends the call with load's ValueError.
FacadeOpen ==
    /\ apc = "closed"
    /\ LET r == File_load(File_init, touch(afile))
       IN  /\ afile' = touch(afile)
           /\ apc' = IF r.error THEN "closed" ELSE "block"
           /\ astore' = IF r.error THEN File_init ELSE r.st
           /\ afresh' = (~r.error /\ afile = AbsentFile)
    /\ ainst' = EmptyDict
    /\ alast' = NoAssignment
    /\ adid' = "nothing"
    /\ UNCHANGED aprev
    /\ FacadeOnly

\* Inside the block: config.<name> is read, for an option.
FacadeGetAttr(name) ==
    /\ apc = "block"
    /\ astore' = File_getitem(astore, name).st
    /\ alast' = [name |-> name, value |-> Option_get(astore, name),
                 result |-> "read", before |-> astore]
    /\ adid' = IF adid # "other" /\ name \notin DOMAIN astore.config
               THEN "reads" ELSE "other"
    /\ UNCHANGED <<afile, apc, ainst, afresh, aprev>>
    /\ FacadeOnly

\* Inside the block: config.<name> = value.
FacadeSetAttr(name, value) ==
    /\ apc = "block"
    /\ LET r == Configuration_setattr([store |-> astore, inst |-> ainst], name, value)
       IN  /\ astore' = r.store
           /\ ainst' = r.inst
           /\ alast' = [name |-> name, value |-> value, result |-> r.result,
                        before |-> astore]
    /\ adid' = "other"
    /\ UNCHANGED <<afile, apc, afresh, aprev>>
    /\ FacadeOnly

\* Inside the block: del config.<name>, for an option.
FacadeDelAttr(name) ==
    /\ apc = "block"
    /\ astore' = Option_delete(astore, name)
    /\ alast' = [name |-> name, value |-> PyNone, result |-> "deleted",
                 before |-> astore]
    /\ adid' = "other"
    /\ UNCHANGED <<afile, apc, ainst, afresh, aprev>>
    /\ FacadeOnly

\* The block exits cleanly: the backend saves when dirty and releases.
FacadeExitClean ==
    /\ apc = "block"
    /\ afile' = exit_save(astore, afile).file
    /\ apc' = "closed"
    /\ astore' = File_init
    /\ ainst' = EmptyDict
    /\ alast' = NoAssignment
    /\ aprev' = [outcome |-> "clean", fresh |-> afresh, config |-> astore.config]
    /\ afresh' = FALSE
    /\ adid' = "nothing"
    /\ FacadeOnly

\* The block raises: the backend releases without saving.
FacadeRaise ==
    /\ apc = "block"
    /\ afile' = raise_file(astore, afile)
    /\ apc' = "closed"
    /\ astore' = File_init
    /\ ainst' = EmptyDict
    /\ alast' = NoAssignment
    /\ aprev' = [outcome |-> "BlockError", fresh |-> afresh, config |-> EmptyDict]
    /\ afresh' = FALSE
    /\ adid' = "nothing"
    /\ FacadeOnly

FacadeNext ==
    \/ FacadeOpen
    \/ \E name \in AttrNames : \E value \in ValuesFor(name) : FacadeSetAttr(name, value)
    \/ \E name \in OptionNames : FacadeDelAttr(name)
    \/ \E name \in OptionNames : FacadeGetAttr(name)
    \/ FacadeExitClean
    \/ FacadeRaise

(***************************************************************************)
(* Properties of the facade.                                               *)
(***************************************************************************)
\* C9: assigning to a name that is not an attribute of the class (the
\* instance's own `store`, a misspelt option) ends with AttributeError and
\* leaves the store as it was: same entries, same dirty flag.
C9_UndeclaredRejected ==
    alast.name \in {"store", "tftp_prot"} =>
        alast.result = "AttributeError" /\ astore = alast.before

\* A misspelt option was assigned to, in a block whose store held entries
\* and was dirty.
C9_Witness ==
    /\ alast.name = "tftp_prot"
    /\ astore.dirty
    /\ DOMAIN astore.config # {}

\* C10, as claimed: assigning to any name that is not a ConfigurationOption
\* of the class ends with AttributeError.
C10_OnlyOptionsAssignable ==
    (alast.result # "none" /\ alast.name \notin OptionNames) =>
        alast.result = "AttributeError"

\* C11: in the block that follows a clean block on a path that had no file,
\* before anything is assigned: an option the first block left set to 5069
\* reads 5069, and every option it left without an entry reads its
\* if_missing (maas_url = "http://localhost:5240/MAAS").
C11_FreshFileReadsBack ==
    (/\ apc = "block"
     /\ alast = NoAssignment
     /\ aprev.outcome = "clean"
     /\ aprev.fresh) =>
        \A n \in OptionNames :
            /\ n \notin DOMAIN aprev.config => Option_get(astore, n) = if_missing(n)
            /\ (n \in DOMAIN aprev.config /\ aprev.config[n] = PyInt(5069))
                   => Option_get(astore, n) = PyInt(5069)

\* The scenario itself: the path had no file, the first block set only
\* tftp_port, to 5069, and exited cleanly, and the path is open again.
C11_Witness ==
    /\ apc = "block"
    /\ alast = NoAssignment
    /\ aprev.outcome = "clean"
    /\ aprev.fresh
    /\ aprev.config = [n \in {"tftp_port"} |-> PyInt(5069)]
    /\ Option_get(astore, "maas_url") = DefaultUrl

\* An option has just been assigned a value its validator accepts.
OptionAssigned == alast.name \in OptionNames /\ alast.result = "ok"

\* C13, as claimed: reading an option that has just been set to a value
\* to_python accepts gives a value equal to the one given.
C13_RoundTrip ==
    OptionAssigned => PyEq(Option_get(astore, alast.name), alast.value)

\* C13, amended: reading an option that has just been set to v gives
\* from_python(to_python(v)); that is equal to v when to_python leaves v as it
\* is (a number in range, a URL with its scheme, the text of a directory)
\* and v is a number or an ASCII text.
C13_ReadBackConverted ==
    OptionAssigned =>
        LET n == alast.name
            v == alast.value
            r == Option_get(astore, n)
        IN  /\ r = from_python(n, to_python(n, v)[2])
            /\ (to_python(n, v) = <<"ok", v>> /\ (IsInt(v) \/ IsAscii(v[2])))
                   => PyEq(r, v)

\* tftp_root has just been set to the text of a directory, which reads back
\* as the byte string of the same characters.
C13_Witness ==
    /\ OptionAssigned
    /\ alast.name = "tftp_root"
    /\ alast.value = Dir
    /\ IsBytes(Option_get(astore, "tftp_root"))

C21_AbsentReadsDefault ==
    /\ []((alast.result = "read" /\ alast.name \notin DOMAIN alast.before.config) =>
             /\ alast.value = if_missing(alast.name)
             /\ astore = alast.before)
    /\ [][(adid = "reads" /\ apc = "block" /\ apc' = "closed") => afile' = afile]_vars

\* In a block that has only read options without an entry, on a file that
\* holds one, tftp_root, which has no entry, has just been read: a text.
C21_Witness ==
    /\ adid = "reads"
    /\ DOMAIN astore.config # {}
    /\ alast.result = "read"
    /\ alast.name = "tftp_root"
    /\ "tftp_root" \notin DOMAIN astore.config
    /\ alast.value = DefaultRoot

\* C26: assigning to tftp_port a number above 65535, to maas_url a text that
\* is no URL (a directory path), or to tftp_root a text that names no
\* directory (a URL) ends with Invalid, and the store is as it was before:
\* the option's entry holds what it held, or is still absent, and dirty is
\* unchanged.
C26_InvalidWriteRejected ==
    (/\ alast.result \notin {"none", "deleted", "read"}
     /\ \/ alast.name = "tftp_port" /\ alast.value = PyInt(70000)
        \/ alast.name = "maas_url" /\ alast.value \in {Dir, DirNonAscii}
        \/ alast.name = "tftp_root" /\ alast.value \in {Url, BareUrl}) =>
        /\ alast.result = "Invalid"
        /\ astore = alast.before

\* tftp_port has just been assigned 70000 in a store that is not dirty and
\* holds a tftp_port, which it still holds.
C26_Witness ==
    /\ alast.name = "tftp_port"
    /\ alast.value = PyInt(70000)
    /\ alast.result = "Invalid"
    /\ "tftp_port" \in DOMAIN astore.config
    /\ ~astore.dirty

\* C27, as claimed: a read of an option never gives a stored value that the
\* option's validator rejects (a port of 70000, a text that is no URL).
C27_InvalidReadRejected ==
    alast.result = "read" => alast.value \notin {PyInt(70000), NotUrl}

\* The entries of config a besides name are those of config b, as they are.
SameBesides(a, b, name) ==
    /\ DOMAIN a \ {name} = DOMAIN b \ {name}
    /\ \A m \in DOMAIN a \ {name} : a[m] = b[m]

\* C22: on the file store of a block, for every name: getting an absent
\* name gives KeyError, getting a present one gives its value, and neither
\* changes the store; setting it makes the entry hold the value given and
\* sets dirty, also when the entry held that value; deleting a present name
\* removes its entry and sets dirty; deleting an absent one leaves the
\* store, dirty included, as it was; no other entry changes.  The store
\* after an accepted assignment is dirty.
C22_MappingAccess ==
    /\ apc = "block" =>
           \A n \in OptionNames :
               LET here == n \in DOMAIN astore.config
                   g == File_getitem(astore, n)
                   d == File_delitem(astore, n)
               IN  /\ g.st = astore
                   /\ g.result = IF here THEN <<"ok", astore.config[n]>>
                                 ELSE <<"KeyError">>
                   /\ n \notin DOMAIN d.config
                   /\ SameBesides(d.config, astore.config, n)
                   /\ d.dirty = (here \/ astore.dirty)
                   /\ \A v \in {PyInt(5069)} \cup {astore.config[m] : m \in DOMAIN astore.config} :
                          LET t == File_setitem(astore, n, v)
                          IN  /\ n \in DOMAIN t.config
                              /\ t.config[n] = v
                              /\ SameBesides(t.config, astore.config, n)
                              /\ t.dirty
    /\ OptionAssigned => astore.dirty

\* An entry of a store that was not dirty has just been set to the value it
\* held, while another name has no entry.
C22_Witness ==
    /\ OptionAssigned
    /\ ~alast.before.dirty
    /\ alast.name \in DOMAIN alast.before.config
    /\ alast.before.config = astore.config
    /\ DOMAIN astore.config # OptionNames

\* C28: after `del config.<option>` the store has no entry for the option,
\* a read of it gives if_missing, and the other entries are as they were;
\* when the option had no entry the store, dirty included, is as it was.
\* In the block that follows a clean one, before anything is assigned,
\* every option the clean block left without an entry reads if_missing.
\* On the database store too, deleting a name leaves no row for it, and
\* leaves the table as it was when the name had none.
C28_DeleteRemovesEntry ==
    /\ alast.result = "deleted" =>
           LET n == alast.name
               rows == Db_delitem(InitialRows, n)
           IN  /\ n \notin DOMAIN astore.config
               /\ Option_get(astore, n) = if_missing(n)
               /\ SameBesides(astore.config, alast.before.config, n)
               /\ n \notin DOMAIN alast.before.config => astore = alast.before
               /\ Db_getitem(rows, n) = <<"KeyError">>
               /\ n \notin Db_iter(InitialRows) => rows = InitialRows
    /\ (apc = "block" /\ alast = NoAssignment /\ aprev.outcome = "clean") =>
           \A n \in OptionNames \ DOMAIN aprev.config :
               Option_get(astore, n) = if_missing(n)

\* In a block that follows a clean one, tftp_port, which the file held, has
\* just been deleted from a store that was not dirty.
C28_Witness ==
    /\ alast.result = "deleted"
    /\ alast.name = "tftp_port"
    /\ "tftp_port" \in DOMAIN alast.before.config
    /\ ~alast.before.dirty
    /\ astore.dirty
    /\ aprev.outcome = "clean"

(***************************************************************************)
(* Properties of the parse cache.                                          *)
(***************************************************************************)
\* The positions of a thread between entering and leaving the lock in
\* load_from_cache.
InsideLock ==
    {"open", "copy", "resume", "calls flush_cache", "calls load_from_cache",
     "in flush_cache", "in load_from_cache"}

\* C37: a load_from_cache of an uncached path whose file is missing or
\* does not validate ends without a value for the caller; it adds no entry
\* and leaves every entry as it was, so no path whose file cannot be loaded
\* is ever cached; it leaves the lock free; and the next load_from_cache of
\* the path opens the file again.
C37_FailedLoadCachesNothing ==
    /\ [](\A f \in DOMAIN cache : disk[f] # Missing /\ disk[f] # Invalid)
    /\ [][\A t \in Procs :
             (cpc[t] \in {"open", "resume"} /\ cpc'[t] = "idle") =>
                 /\ disk[cpath[t]] \in {Missing, Invalid}
                 /\ cache' = cache
                 /\ cpath[t] \notin DOMAIN cache'
                 /\ held'[t] = NoValue
                 /\ cacheLock' = NoProc
                 /\ cdepth' = 0]_vars
    /\ [][\A t \in Procs :
             (cpc[t] \in {"open", "resume"} /\ disk[cpath[t]] \in {Missing, Invalid}) =>
                 cpc'[t] \notin {"copy"}]_vars
    /\ [][\A t \in Procs :
             (cpc[t] = "idle" /\ cpc'[t] # "idle") =>
                 cpc'[t] = IF cpath'[t] \in DOMAIN cache THEN "copy" ELSE "open"]_vars

\* The file of a path has been opened twice, the second time by a thread
\* whose load failed, while another path stays cached and the lock is free.
C37_Witness ==
    \E f \in Paths, t \in Procs :
        /\ disk[f] = Invalid
        /\ opens[f] = 2
        /\ cpath[t] = f
        /\ cpc[t] = "idle"
        /\ held[t] = NoValue
        /\ cacheLock = NoProc
        /\ DOMAIN cache = Paths \ {f}

\* C30: the cache lock is re-entrant.  A thread that holds it and calls
\* flush_cache or load_from_cache again enters at once, and the lock counts
\* the entry; only its holder is inside the lock; a thread that does not
\* hold it cannot enter while it is held, and any thread can once it is
\* free; the lock passes from its holder only by the holder's last leave;
\* and the lock is free again and again, so nobody waits for ever.
C30_ReentrantLock ==
    /\ [](\A t \in Procs :
            /\ cpc[t] \in InsideLock => cacheLock = t
            /\ cpc[t] \in {"calls flush_cache", "calls load_from_cache"} =>
                   lock_enter(cacheLock, t)
            /\ cpc[t] \in {"in flush_cache", "in load_from_cache"} <=>
                   (cacheLock = t /\ cdepth = 2)
            /\ (cpc[t] = "idle" /\ cacheLock # NoProc) =>
                   ~lock_enter(cacheLock, t)
            /\ cacheLock = NoProc => lock_enter(cacheLock, t))
    /\ [](cacheLock = NoProc <=> cdepth = 0)
    /\ [][cacheLock' # cacheLock =>
             \/ cacheLock = NoProc /\ cdepth' = 1
             \/ cacheLock' = NoProc /\ cdepth = 1]_vars
    /\ []<>(cacheLock = NoProc)

\* A thread that held the lock has called flush_cache, which has returned,
\* and goes on holding the lock once while the other threads are outside.
C30_Witness ==
    \E t \in Procs :
        /\ cpc[t] = "resume"
        /\ flushed = AllFiles
        /\ cacheLock = t
        /\ cdepth = 1
        /\ \A u \in Procs \ {t} : cpc[u] = "idle"

\* C7, as claimed: between two flush_cache calls the file of a path is
\* opened at most once, however many load_from_cache calls there are.
C7_OpenedOnce == \A f \in Paths : opens[f] <= 1

\* C7, amended: once a path has been opened and parsed successfully it is
\* not opened again before the next flush_cache: no thread is about to open
\* a path that is cached, and no path has been opened after its parse.
C7_ParsedOnce ==
    /\ \A f \in Paths : ~reopened[f]
    /\ \A t \in Procs : cpc[t] = "open" => cpath[t] \notin DOMAIN cache

\* Two threads have been returned a value for the same path, which was
\* opened once.
C7_Witness ==
    \E t1, t2 \in Procs :
        /\ t1 # t2
        /\ held[t1] # NoValue
        /\ held[t2] # NoValue
        /\ cpath[t1] = cpath[t2]
        /\ opens[cpath[t1]] = 1

\* C8: every value returned is made of objects of its own, shared neither
\* with the cache nor with a value another thread holds; each cache entry
\* still holds the document that was parsed, and each thread's value holds
\* what that thread made of it, whatever the other holders changed in place.
C8_CacheIsolation ==
    /\ \A f \in DOMAIN cache : Deref(cache[f]) = parsedDoc[f]
    /\ \A t \in Procs : held[t] # NoValue => Deref(held[t]) = expected[t]
    /\ \A t \in Procs : \A f \in DOMAIN cache :
           held[t] # NoValue =>
               held[t].top # cache[f].top /\ held[t].nested # cache[f].nested
    /\ \A t1, t2 \in Procs :
           t1 # t2 /\ held[t1] # NoValue /\ held[t2] # NoValue =>
               held[t1].top # held[t2].top /\ held[t1].nested # held[t2].nested

\* Two threads hold values of one cached path; one has changed both the
\* outer and the nested dict of its value, the other's is as parsed.
C8_Witness ==
    \E t1, t2 \in Procs :
        /\ t1 # t2
        /\ held[t1] # NoValue
        /\ held[t2] # NoValue
        /\ cpath[t1] = cpath[t2]
        /\ cpath[t1] \in DOMAIN cache
        /\ expected[t1].logfile # parsedDoc[cpath[t1]].logfile
        /\ expected[t1].tftp # parsedDoc[cpath[t1]].tftp
        /\ expected[t2] = parsedDoc[cpath[t2]]

\* C18, as claimed: after flush_cache(filename), for a filename of any form,
\* the entry load_from_cache(filename) keeps -- the one at the absolute path
\* -- is not in the cache, and after flush_cache() no entry is.
C18_FlushRemovesEntry ==
    /\ flushed \in Filenames => abspath(flushed) \notin DOMAIN cache
    /\ flushed = AllFiles => cache = EmptyDict

(***************************************************************************)
(* A save step by step: atomic_write(content, path) writes the content to  *)
(* a temporary file next to the path and renames it onto the path.  The    *)
(* content is a YAML mapping, written one entry after the other; a crash   *)
(* may end the save at any point; a reader that takes no lock              *)
(* (ConfigBase.load) may read the path at any moment.                      *)
(***************************************************************************)
\* The configs a save may be given: every dict over Names with StoreValues.
SaveConfigs ==
    UNION {[ks -> StoreValues] : ks \in SUBSET Names}

\* The first k entries of a mapping's text.
Prefix(body, k) == <<body[1], SubSeq(body[2], 1, k)>>

\* One more entry written straight into the file at the path.
write_in_place(f, t, body) ==
    LET k == IF f = AbsentFile \/ f[2] = <<>> \/ f = sold THEN 0 ELSE Len(f[2][2])
    IN  [file |-> <<"text", Prefix(body, k + 1)>>, tmp |-> t]

\* One more entry written into the temporary file.
write_temp(f, t, body) ==
    [file |-> f, tmp |-> <<"text", Prefix(body, Len(t[2][2]) + 1)>>]

NoRead == [doc |-> AbsentFile, old |-> AbsentFile, new |-> AbsentFile]

SaveIdle ==
    /\ stmp = AbsentFile
    /\ spc = "idle"
    /\ sold = sfile
    /\ snew = sfile
    /\ sread = NoRead

SaveInit ==
    /\ sfile \in {AbsentFile, EmptyFile,
                   atomic_write(yaml_safe_dump([k \in {"tftp_port"} |-> PyInt(69)]), AbsentFile)}
    /\ SaveIdle

\* save begins: dump = yaml.safe_dump(config); the temporary file is
\* created empty.
SaveBegin(config) ==
    /\ spc = "idle"
    /\ spc' = "writing"
    /\ sold' = sfile
    /\ snew' = atomic_write(yaml_safe_dump(config), sfile)
    /\ stmp' = <<"text", Prefix(yaml_safe_dump(config), 0)>>
    /\ UNCHANGED <<sfile, sread>>
    /\ SaveOnly

\* One more entry of the content reaches the temporary file.
SaveWrite ==
    /\ spc = "writing"
    /\ stmp # snew
    /\ LET r == write_temp(sfile, stmp, snew[2])
       IN  /\ sfile' = r.file
           /\ stmp' = r.tmp
    /\ UNCHANGED <<spc, sold, snew, sread>>
    /\ SaveOnly

\* The temporary file, complete, is renamed onto the path.
SaveRename ==
    /\ spc = "writing"
    /\ stmp = snew
    /\ sfile' = stmp
    /\ stmp' = AbsentFile
    /\ spc' = "idle"
    /\ UNCHANGED <<sold, snew, sread>>
    /\ SaveOnly

\* The process dies during the save: what is on disk stays as it is.  The
\* next save makes a temporary file of its own.
SaveCrash ==
    /\ spc = "writing"
    /\ spc' = "idle"
    /\ UNCHANGED <<sfile, stmp, sold, snew, sread>>
    /\ SaveOnly

\* A reader that takes no lock reads the path: open(filename, "rb").
Observe ==
    /\ sread' = [doc |-> sfile, old |-> sold, new |-> snew]
    /\ sread' # sread
    /\ UNCHANGED <<sfile, stmp, spc, sold, snew>>
    /\ SaveOnly

SaveNext ==
    \/ \E config \in SaveConfigs : SaveBegin(config)
    \/ SaveWrite
    \/ SaveRename
    \/ SaveCrash
    \/ Observe

\* C17: at every moment -- before, during and after a save, and after a
\* save that a crash ended -- the file at the path is either the whole file
\* from before the last save began or the whole content that save was
\* given, and so is whatever a reader without the lock has read.
C17_AtomicPersistence ==
    /\ sfile \in {sold, snew}
    /\ spc = "writing" => sfile = sold
    /\ sread.doc \in {sread.old, sread.new}

\* A save of two entries over a file of one was ended by a crash with one
\* entry written, and a reader has read the path since.
C17_Witness ==
    /\ spc = "idle"
    /\ stmp # AbsentFile
    /\ Len(stmp[2][2]) = 1
    /\ Len(snew[2][2]) = 2
    /\ sfile # AbsentFile
    /\ sread.doc = sfile
    /\ sread.new = snew

(***************************************************************************)
(* DEFAULT_FILENAME: a property of the metaclasses ConfigMeta (Config,     *)
(* BootSources) and ConfigurationMeta (ClusterConfiguration), kept in the  *)
(* environment variable cls.envvar.                                        *)
(***************************************************************************)
LegacyClasses == {"Config", "BootSources"}
FacadeClasses == {"ClusterConfiguration"}
Classes == LegacyClasses \cup FacadeClasses

envvar(cls) ==
    IF cls = "Config" THEN "MAAS_PROVISIONING_SETTINGS"
    ELSE IF cls = "BootSources" THEN "MAAS_BOOT_SOURCES_SETTINGS"
    ELSE "MAAS_CLUSTER_CONFIG"

\* The built-in default: locate_config(cls.default) for ConfigMeta,
\* get_tentative_path(cls.default) for ConfigurationMeta.
builtin_default(cls) ==
    IF cls = "Config" THEN "locate_config(pserv.yaml)"
    ELSE IF cls = "BootSources" THEN "locate_config(sources.yaml)"
    ELSE "get_tentative_path(/etc/maas/cluster.conf)"

\* The texts a variable may hold: the empty text and two filenames.
EnvTexts == {"", "/tmp/a.yaml", "/tmp/b.yaml"}

\* ConfigMeta._get_default_filename: environ.get(cls.envvar, default)
ConfigMeta_get_default_filename(cls, env) ==
    IF envvar(cls) \in DOMAIN env THEN env[envvar(cls)] ELSE builtin_default(cls)

\* _get_default_filename that returns the variable whenever it is set.
ConfigurationMeta_get_any(cls, env) ==
    IF envvar(cls) \in DOMAIN env THEN env[envvar(cls)] ELSE builtin_default(cls)

\* ConfigurationMeta._get_default_filename: the default also when the
\* variable holds the empty text.
ConfigurationMeta_get_default_filename(cls, env) ==
    IF envvar(cls) \notin DOMAIN env \/ env[envvar(cls)] = ""
    THEN builtin_default(cls)
    ELSE env[envvar(cls)]

\* cls.DEFAULT_FILENAME
get_default_filename(cls, env) ==
    IF cls \in LegacyClasses THEN ConfigMeta_get_default_filename(cls, env)
    ELSE ConfigurationMeta_get_default_filename(cls, env)

\* cls.DEFAULT_FILENAME = filename: environ[cls.envvar] = filename
set_default_filename(cls, env, filename) == DictSet(env, envvar(cls), filename)

\* del cls.DEFAULT_FILENAME: environ.pop(cls.envvar, None)
delete_default_filename(cls, env) == DictDel(env, envvar(cls))

\* filepath=None, and the filepath a caller gives.
NoPath == "<None>"
FilePaths == {NoPath, "/srv/maas/cluster.conf"}

\* os.path.dirname(path)
dirname(path) ==
    IF path \in {"/tmp/a.yaml", "/tmp/b.yaml"} THEN "/tmp"
    ELSE IF path = "/srv/maas/cluster.conf" THEN "/srv/maas"
    ELSE IF path = "get_tentative_path(/etc/maas/cluster.conf)"
    THEN "get_tentative_path(/etc/maas)"
    ELSE ""

\* open() that opens the backend before it makes the directory.
Configuration_open_dir_last(cls, filepath, env, how) ==
    LET path == IF filepath = NoPath THEN get_default_filename(cls, env)
                ELSE filepath
    IN  << <<"backend.open", path>>, <<"ensure_dir", dirname(path)>>,
           <<"cls", "store">>, <<"backend.exit", how>> >>

\* Configuration.open(filepath), as the calls it makes when its block ends
\* in `how` ("clean" or "BlockError"): filepath, or cls.DEFAULT_FILENAME
\* when it is None; ensure_dir of its directory; cls.backend.open of it;
\* cls(store) of the store that yields, given to the block; and the end of
\* the block passed to the backend's context manager as it is.
Configuration_open(cls, filepath, env, how) ==
    LET path == IF filepath = NoPath THEN get_default_filename(cls, env)
                ELSE filepath
    IN  << <<"ensure_dir", dirname(path)>>, <<"backend.open", path>>,
           <<"cls", "store">>, <<"backend.exit", how>> >>

NoUse == [op |-> "none", cls |-> "", value |-> "", before |-> EmptyDict]

EnvIdle == elast = NoUse

\* The environment the process starts with.
EnvInit ==
    /\ environ \in UNION {[vs -> EnvTexts] : vs \in SUBSET {envvar(c) : c \in Classes}}
    /\ EnvIdle

\* cls.DEFAULT_FILENAME is read.
EnvGet(cls) ==
    /\ elast' = [op |-> "get", cls |-> cls,
                 value |-> get_default_filename(cls, environ), before |-> environ]
    /\ elast' # elast
    /\ UNCHANGED environ
    /\ EnvOnly

\* cls.DEFAULT_FILENAME = filename
EnvSet(cls, filename) ==
    /\ environ' = set_default_filename(cls, environ, filename)
    /\ elast' = [op |-> "set", cls |-> cls, value |-> filename, before |-> environ]
    /\ EnvOnly

\* del cls.DEFAULT_FILENAME
EnvDel(cls) ==
    /\ environ' = delete_default_filename(cls, environ)
    /\ elast' = [op |-> "del", cls |-> cls, value |-> "", before |-> environ]
    /\ EnvOnly

\* with cls.open(filepath): a block that ends in `how`.
EnvOpen(cls, filepath, how) ==
    /\ cls \in FacadeClasses
    /\ elast' = [op |-> "open", cls |-> cls, value |-> filepath,
                 before |-> environ, how |-> how,
                 calls |-> Configuration_open(cls, filepath, environ, how)]
    /\ elast' # elast
    /\ UNCHANGED environ
    /\ EnvOnly

EnvNext ==
    \E cls \in Classes :
        \/ EnvGet(cls)
        \/ \E filename \in EnvTexts : EnvSet(cls, filename)
        \/ EnvDel(cls)
        \/ \E filepath \in FilePaths, how \in {"clean", "BlockError"} :
               EnvOpen(cls, filepath, how)

\* What the other classes' properties read is as before the last use.
OthersAsBefore ==
    \A c \in Classes \ {elast.cls} :
        get_default_filename(c, environ) = get_default_filename(c, elast.before)

\* C19, as claimed: for every class, a read gives the variable's value
\* whenever the variable is set; after DEFAULT_FILENAME = f the variable
\* holds f and a read gives f; after del DEFAULT_FILENAME the variable is
\* gone and a read gives the built-in default, and a del with the variable
\* unset changes nothing.
C19_EnvAlwaysOverrides ==
    /\ (elast.op = "get" /\ envvar(elast.cls) \in DOMAIN environ)
           => elast.value = environ[envvar(elast.cls)]
    /\ elast.op = "set" =>
           /\ environ[envvar(elast.cls)] = elast.value
           /\ get_default_filename(elast.cls, environ) = elast.value
    /\ elast.op = "del" =>
           /\ envvar(elast.cls) \notin DOMAIN environ
           /\ get_default_filename(elast.cls, environ) = builtin_default(elast.cls)
           /\ envvar(elast.cls) \notin DOMAIN elast.before => environ = elast.before

\* C19, amended: the same, except that for a facade class (ConfigurationMeta)
\* a variable that holds the empty text counts as unset: a read gives the
\* built-in default.  For the legacy classes (ConfigMeta) the value is
\* returned as it is, empty or not.  No use of one class's property changes
\* what another class's reads.
C19_EnvOverrides ==
    /\ elast.op \in {"get", "set"} =>
           LET cls == elast.cls
               read == IF elast.op = "get" THEN elast.value
                       ELSE get_default_filename(cls, environ)
           IN  /\ elast.op = "set" => environ[envvar(cls)] = elast.value
               /\ envvar(cls) \in DOMAIN environ =>
                      read = IF cls \in FacadeClasses /\ environ[envvar(cls)] = ""
                             THEN builtin_default(cls)
                             ELSE environ[envvar(cls)]
               /\ envvar(cls) \notin DOMAIN environ => read = builtin_default(cls)
    /\ elast.op = "del" =>
           /\ envvar(elast.cls) \notin DOMAIN environ
           /\ get_default_filename(elast.cls, environ) = builtin_default(elast.cls)
           /\ envvar(elast.cls) \notin DOMAIN elast.before => environ = elast.before
    /\ elast.op # "none" => OthersAsBefore

\* The index of the call of this name among calls, or 0.
CallAt(calls, name) ==
    IF \E i \in DOMAIN calls : calls[i][1] = name
    THEN CHOOSE i \in DOMAIN calls : calls[i][1] = name
    ELSE 0

\* What an open() did, given the path it should have resolved: ensure_dir
\* of the path's directory comes before backend.open of the path, the
\* facade is made of the store the backend yields, and the backend's
\* context manager is last left the way the block ended.
OpenedAt(path) ==
    LET calls == elast.calls
    IN  /\ CallAt(calls, "ensure_dir") > 0
        /\ CallAt(calls, "ensure_dir") < CallAt(calls, "backend.open")
        /\ CallAt(calls, "backend.open") < CallAt(calls, "cls")
        /\ calls[CallAt(calls, "ensure_dir")][2] = dirname(path)
        /\ calls[CallAt(calls, "backend.open")][2] = path
        /\ calls[CallAt(calls, "cls")][2] = "store"
        /\ calls[Len(calls)] = <<"backend.exit", elast.how>>

\* C29, as claimed: open() uses the filepath given, else the class's
\* variable whenever it is set, else the built-in default.
C29_OpenResolvesPath ==
    elast.op = "open" =>
        OpenedAt(IF elast.value # NoPath THEN elast.value
                 ELSE IF envvar(elast.cls) \in DOMAIN environ
                 THEN environ[envvar(elast.cls)]
                 ELSE builtin_default(elast.cls))

\* C29, amended: open() uses the filepath given, else the class's variable
\* when it is set and not empty, else the built-in default.
C29_OpenResolvesNonEmpty ==
    elast.op = "open" =>
        OpenedAt(IF elast.value # NoPath THEN elast.value
                 ELSE IF /\ envvar(elast.cls) \in DOMAIN environ
                         /\ environ[envvar(elast.cls)] # ""
                 THEN environ[envvar(elast.cls)]
                 ELSE builtin_default(elast.cls))

\* open() was given no filepath while the variable held a filename, and
\* its block raised.
C29_Witness ==
    /\ elast.op = "open"
    /\ elast.value = NoPath
    /\ elast.how = "BlockError"
    /\ envvar(elast.cls) \in DOMAIN environ
    /\ environ[envvar(elast.cls)] = "/tmp/a.yaml"
    /\ elast.calls[2] = <<"backend.open", "/tmp/a.yaml">>

\* The facade class's DEFAULT_FILENAME has just been deleted while its
\* variable held a filename, and the legacy classes' variables are set.
C19_Witness ==
    /\ elast.op = "del"
    /\ elast.cls = "ClusterConfiguration"
    /\ envvar("ClusterConfiguration") \in DOMAIN elast.before
    /\ elast.before[envvar("ClusterConfiguration")] = "/tmp/a.yaml"
    /\ \A c \in LegacyClasses : envvar(c) \in DOMAIN environ

(***************************************************************************)
(* ConfigurationOption objects: construction, and reads through __get__.   *)
(*                                                                         *)
(* The validator argument is [is_validator |-> b, if_missing |-> d]: d is  *)
(* NoDefault, None or a value; the conversions of a validator are those of *)
(* the option's name.                                                      *)
(***************************************************************************)
NoDefault == <<"NoDefault">>
NotValidator == [is_validator |-> FALSE, if_missing |-> PyNone]

\* The validators an option of this name may be given.
ValidatorsFor(name) ==
    {[is_validator |-> TRUE, if_missing |-> d] :
        d \in {NoDefault, PyNone, if_missing(name)}}

\* __init__ with its assert statements left out.
ConfigurationOption_init_unchecked(name, unicode_texts, validator) ==
    <<"ok", [name |-> name, validator |-> validator]>>

\* ConfigurationOption.__init__(name, doc, validator): <<"ok", option>>, or
\* <<"AssertionError">> when name or doc is not unicode, validator is not a
\* validator, or validator.if_missing is NoDefault.
ConfigurationOption_init(name, unicode_texts, validator) ==
    IF /\ unicode_texts
       /\ validator.is_validator
       /\ validator.if_missing # NoDefault
    THEN <<"ok", [name |-> name, validator |-> validator]>>
    ELSE <<"AssertionError">>

\* ConfigurationOption.__get__(obj) of a constructed option.
ConfigurationOption_get(option, st) ==
    IF option.name \in DOMAIN st.config
    THEN from_python(option.name, st.config[option.name])
    ELSE option.validator.if_missing

NoOptionUse == [op |-> "none", name |-> "", arg |-> NotValidator, result |-> PyNone]

OptionIdle ==
    /\ options = EmptyDict
    /\ ostore = File_init
    /\ olast = NoOptionUse

OptionInit == OptionIdle

\* In the class body: <name> = ConfigurationOption(name, doc, validator).
\* A failed construction ends the class definition there: the name is not
\* bound.
OptionNew(name, unicode_texts, validator) ==
    /\ LET r == ConfigurationOption_init(name, unicode_texts, validator)
       IN  /\ options' = IF r[1] = "ok" THEN DictSet(options, name, r[2]) ELSE options
           /\ olast' = [op |-> "new", name |-> name, arg |-> validator,
                        result |-> <<r[1]>>]
    /\ UNCHANGED ostore
    /\ OptionOnly

\* ConfigurationOption.__set__(obj, value) of an option of the class: the
\* store gets to_python(value); an invalid value leaves it as it was.
OptionSet(name, value) ==
    /\ name \in DOMAIN options
    /\ LET r == to_python(name, value)
       IN  ostore' = IF r[1] = "ok" THEN File_setitem(ostore, name, r[2]) ELSE ostore
    /\ ostore' # ostore
    /\ UNCHANGED <<options, olast>>
    /\ OptionOnly

\* ConfigurationOption.__delete__(obj) of an option of the class.
OptionDelete(name) ==
    /\ name \in DOMAIN options
    /\ name \in DOMAIN ostore.config
    /\ ostore' = Option_delete(ostore, name)
    /\ UNCHANGED <<options, olast>>
    /\ OptionOnly

\* config.<name> is read, for an option of the class.
OptionRead(name) ==
    /\ name \in DOMAIN options
    /\ olast' = [op |-> "read", name |-> name, arg |-> NotValidator,
                 result |-> ConfigurationOption_get(options[name], ostore)]
    /\ olast' # olast
    /\ UNCHANGED <<options, ostore>>
    /\ OptionOnly

OptionNext ==
    \E name \in OptionNames :
        \/ \E unicode_texts \in BOOLEAN :
           \E validator \in ValidatorsFor(name) \cup {NotValidator} :
               OptionNew(name, unicode_texts, validator)
        \/ \E value \in ValuesFor(name) : OptionSet(name, value)
        \/ OptionDelete(name)
        \/ OptionRead(name)

BaseDefault(cls) ==
    IF cls = "Config" THEN "/etc/maas/pserv.yaml" ELSE "/etc/maas/sources.yaml"

\* if filename is None: filename = cls.DEFAULT_FILENAME
or_default(cls, filename) ==
    IF filename = NoPath THEN BaseDefault(cls) ELSE filename

\* The messages create_backup is given.
Messages == {"upgrade"}

\* ConfigBase._get_backup_name: "%s.%s.bak" % (filename, message)
ConfigBase_get_backup_name(cls, message, filename) ==
    or_default(cls, filename) \o "." \o message \o ".bak"

BackupNames ==
    {ConfigBase_get_backup_name(c, m, f) :
        c \in LegacyClasses, m \in Messages, f \in Paths}

BaseFiles == Paths \cup BackupNames

\* A copy that takes the source file away.
copyfile_moving(src, dst, files) ==
    IF files[src] = Missing
    THEN [result |-> <<"IOError">>, disk |-> files]
    ELSE [result |-> <<"ok">>,
          disk |-> [files EXCEPT ![dst] = files[src], ![src] = Missing]]

\* shutil.copyfile(src, dst): the source is opened for reading (IOError
\* when there is none), then the destination is written with its content.
copyfile(src, dst, files) ==
    IF files[src] = Missing
    THEN [result |-> <<"IOError">>, disk |-> files]
    ELSE [result |-> <<"ok">>, disk |-> [files EXCEPT ![dst] = files[src]]]

\* ConfigBase.create_backup(message, filename)
ConfigBase_create_backup(cls, message, filename, files) ==
    copyfile(or_default(cls, filename),
             ConfigBase_get_backup_name(cls, message, filename), files)

\* cls.parse(stream): cls.to_python(yaml.safe_load(stream)), the document
\* as the schema of cls validated it.
parse_with(cls, content) ==
    IF parse(content)[1] = "ok"
    THEN <<"ok", [schema |-> cls, document |-> parse(content)[2]]>>
    ELSE <<"Invalid">>

\* A load_from_cache that uses an entry only for the class that made it.
ConfigBase_load_from_cache_per_class(cls, filename, files, cch) ==
    LET f == abspath(or_default(cls, filename))
        r == IF files[f] = Missing THEN <<"IOError">>
             ELSE parse_with(cls, files[f])
    IN  IF f \in DOMAIN cch /\ cch[f].schema = cls
        THEN [result |-> <<"ok", cch[f]>>, cache |-> cch, opened |-> FALSE]
        ELSE IF r[1] = "ok"
        THEN [result |-> r, cache |-> DictSet(cch, f, r[2]), opened |-> TRUE]
        ELSE [result |-> r, cache |-> cch, opened |-> TRUE]

\* ConfigBase.load_from_cache(filename): what the call returns (a copy of
\* the cached document) or raises, the cache after it, and whether the file
\* was opened.
ConfigBase_load_from_cache(cls, filename, files, cch) ==
    LET f == abspath(or_default(cls, filename))
        r == IF files[f] = Missing THEN <<"IOError">>
             ELSE parse_with(cls, files[f])
    IN  IF f \in DOMAIN cch
        THEN [result |-> <<"ok", cch[f]>>, cache |-> cch, opened |-> FALSE]
        ELSE IF r[1] = "ok"
        THEN [result |-> r, cache |-> DictSet(cch, f, r[2]), opened |-> TRUE]
        ELSE [result |-> r, cache |-> cch, opened |-> TRUE]

\* ConfigBase.flush_cache(filename)
ConfigBase_flush_cache(filename, cch) ==
    IF filename = NoPath THEN EmptyDict
    ELSE IF filename \in DOMAIN cch THEN DictDel(cch, filename)
    ELSE cch

\* A save that evicts the cache entry of the file it writes.
ConfigBase_save_evicting(cls, config, filename, files, cch) ==
    [disk |-> [files EXCEPT ![or_default(cls, filename)] = <<"valid", config>>],
     cache |-> ConfigBase_flush_cache(or_default(cls, filename), cch)]

\* ConfigBase.save(config, filename): atomic_write(yaml.safe_dump(config),
\* filename); the files and the cache after it.
ConfigBase_save(cls, config, filename, files, cch) ==
    [disk |-> [files EXCEPT ![or_default(cls, filename)] = <<"valid", config>>],
     cache |-> cch]

NoCall ==
    [op |-> "none", cls |-> "", filename |-> "", arg |-> <<"none">>,
     result |-> <<"none">>, opened |-> FALSE]

BaseIdle ==
    /\ bcache = EmptyDict
    /\ blast = NoCall

BaseInit ==
    /\ bdisk \in {[f \in BaseFiles |->
                     IF f = "/etc/maas/sources.yaml" THEN <<"valid", DocB>>
                     ELSE IF f = "/etc/maas/pserv.yaml" THEN c
                     ELSE Missing] :
                    c \in {Missing, Invalid, <<"valid", DocA>>}}
    /\ BaseIdle

BaseLoad(cls, filename) ==
    /\ LET r == ConfigBase_load_from_cache(cls, filename, bdisk, bcache)
       IN  /\ bcache' = r.cache
           /\ blast' = [op |-> "load_from_cache", cls |-> cls,
                        filename |-> filename, arg |-> <<"none">>,
                        result |-> r.result, opened |-> r.opened]
    /\ UNCHANGED bdisk
    /\ BaseOnly

BaseFlush(cls, filename) ==
    /\ bcache' = ConfigBase_flush_cache(filename, bcache)
    /\ blast' = [op |-> "flush_cache", cls |-> cls, filename |-> filename,
                 arg |-> <<"none">>, result |-> <<"ok">>, opened |-> FALSE]
    /\ UNCHANGED bdisk
    /\ BaseOnly

BaseSave(cls, config, filename) ==
    /\ LET r == ConfigBase_save(cls, config, filename, bdisk, bcache)
       IN  /\ bdisk' = r.disk
           /\ bcache' = r.cache
    /\ blast' = [op |-> "save", cls |-> cls, filename |-> filename,
                 arg |-> <<"config", config>>, result |-> <<"ok">>,
                 opened |-> FALSE]
    /\ BaseOnly

BaseBackup(cls, message, filename) ==
    /\ LET r == ConfigBase_create_backup(cls, message, filename, bdisk)
       IN  /\ bdisk' = r.disk
           /\ blast' = [op |-> "create_backup", cls |-> cls,
                        filename |-> filename, arg |-> <<"message", message>>,
                        result |-> r.result, opened |-> FALSE]
    /\ UNCHANGED bcache
    /\ BaseOnly

\* Something else than ConfigBase removes the file at a path.
BaseRemove(f) ==
    /\ bdisk[f] # Missing
    /\ bdisk' = [bdisk EXCEPT ![f] = Missing]
    /\ blast' = [op |-> "remove", cls |-> "", filename |-> f,
                 arg |-> <<"none">>, result |-> <<"ok">>, opened |-> FALSE]
    /\ UNCHANGED bcache
    /\ BaseOnly

BaseNext ==
    \/ \E cls \in LegacyClasses, filename \in Paths \cup {NoPath} :
           \/ BaseLoad(cls, filename)
           \/ BaseFlush(cls, filename)
           \/ \E config \in {DocA, DocB} : BaseSave(cls, config, filename)
           \/ \E message \in Messages : BaseBackup(cls, message, filename)
    \/ \E f \in Paths : BaseRemove(f)

\* The file a call on cls with filename is about, and its backup.
CallPath(call) == or_default(call.cls, call.filename)
CallBackup(call) ==
    ConfigBase_get_backup_name(call.cls, call.arg[2], call.filename)

\* C31: create_backup(message, filename) of a file that exists leaves at
\* <filename>.<message>.bak (the default file's name when filename is
\* omitted) the content the file has on disk, and changes neither the file,
\* nor any other file, nor the parse cache.
C31_BackupCopies ==
    [][blast'.op = "create_backup" =>
          /\ bcache' = bcache
          /\ bdisk'[CallPath(blast')] = bdisk[CallPath(blast')]
          /\ \A g \in BaseFiles \ {CallBackup(blast')} : bdisk'[g] = bdisk[g]
          /\ CallBackup(blast') = CallPath(blast') \o ".upgrade.bak"
          /\ bdisk[CallPath(blast')] # Missing =>
                 /\ blast'.result = <<"ok">>
                 /\ bdisk'[CallBackup(blast')] = bdisk[CallPath(blast')]]_vars

\* A backup was made of a file whose content is not the cached document.
C31_Witness ==
    /\ blast.op = "create_backup"
    /\ blast.result = <<"ok">>
    /\ CallPath(blast) \in DOMAIN bcache
    /\ bdisk[CallBackup(blast)] = bdisk[CallPath(blast)]
    /\ bdisk[CallPath(blast)] # <<"valid", bcache[CallPath(blast)].document>>

\* C35: a cache entry is the document parsed when the path was first
\* loaded, and stays that document until flush_cache evicts it: no save, no
\* change of the file and no other call changes or removes it, and every
\* load_from_cache of a cached path returns that document without opening
\* the file, whatever the file holds by then.
C35_CacheIsStale ==
    /\ [][\A f \in DOMAIN bcache :
             IF f \in DOMAIN bcache' THEN bcache'[f] = bcache[f]
             ELSE blast'.op = "flush_cache"]_vars
    /\ [][\A f \in DOMAIN bcache' \ DOMAIN bcache :
             /\ blast'.op = "load_from_cache"
             /\ f = abspath(CallPath(blast'))
             /\ bdisk[f] # Missing
             /\ bcache'[f] = parse_with(blast'.cls, bdisk[f])[2]]_vars
    /\ [][blast'.op \in {"save", "remove", "create_backup"} =>
             bcache' = bcache]_vars
    /\ [][(blast'.op = "load_from_cache"
               /\ abspath(CallPath(blast')) \in DOMAIN bcache) =>
             /\ blast'.result = <<"ok", bcache[abspath(CallPath(blast'))]>>
             /\ ~blast'.opened
             /\ bcache' = bcache]_vars

\* load_from_cache has returned the document parsed at the first load of
\* pserv.yaml after save wrote another document to the file.
C35_Witness ==
    /\ blast.op = "load_from_cache"
    /\ CallPath(blast) = "/etc/maas/pserv.yaml"
    /\ blast.result[1] = "ok"
    /\ ~blast.opened
    /\ blast.result[2].document = DocA
    /\ bdisk["/etc/maas/pserv.yaml"] = <<"valid", DocB>>

\* C36: Config and BootSources share one cache, keyed by absolute path
\* only.  load_from_cache on either class for a path that is cached returns
\* the cached document, validated by the class that loaded it first, and
\* neither opens nor validates the file; flush_cache() on either class
\* leaves no entry at all.
C36_OneCacheForAllClasses ==
    /\ [](DOMAIN bcache \subseteq Paths)
    /\ [](\A f \in DOMAIN bcache : bcache[f].schema \in LegacyClasses)
    /\ [][\A cls \in LegacyClasses :
             (blast'.op = "load_from_cache" /\ blast'.cls = cls
                 /\ abspath(CallPath(blast')) \in DOMAIN bcache) =>
                 /\ blast'.result[1] = "ok"
                 /\ blast'.result[2].schema = bcache[abspath(CallPath(blast'))].schema
                 /\ blast'.result[2].document = bcache[abspath(CallPath(blast'))].document
                 /\ ~blast'.opened]_vars
    /\ [][\A cls \in LegacyClasses :
             (blast'.op = "flush_cache" /\ blast'.cls = cls
                 /\ blast'.filename = NoPath) => bcache' = EmptyDict]_vars

\* BootSources.load_from_cache has returned, without opening the file, a
\* document that Config validated.
C36_Witness ==
    /\ blast.op = "load_from_cache"
    /\ blast.cls = "BootSources"
    /\ blast.result[1] = "ok"
    /\ blast.result[2].schema = "Config"
    /\ ~blast.opened

(***************************************************************************)
(* The two backends side by side: one caller runs the same open, get, set, *)
(* delete, iterate and exit on a ConfigurationFile and on a                *)
(* ConfigurationDatabase that start with the same entries.                 *)
(***************************************************************************)
\* The values the caller sets: an int, a text, and a byte string that is
\* the UTF-8 form of a text outside ASCII.  json.dumps and yaml.safe_dump
\* take all three.
PairValues ==
    {PyInt(69), PyStr(<<"6", "9">>), PyBytes(<<"/srv/caf", "0xC3", "0xA9">>)}

\* The entries both stores start with.
PairContents == {EmptyDict, [k \in {"tftp_port"} |-> PyInt(69)]}

\* The rows of a table that holds the entries of a dict, set in key order.
RECURSIVE RowsOf(_, _)
RowsOf(config, keys) ==
    IF keys = <<>> THEN {}
    ELSE LET rest == RowsOf(config, SubSeq(keys, 1, Len(keys) - 1))
             k == keys[Len(keys)]
         IN  IF k \in DOMAIN config THEN Db_setitem(rest, k, config[k]) ELSE rest

NoPairCall == [op |-> "none", name |-> "", file |-> <<"none">>, db |-> <<"none">>]

PairIdle ==
    /\ xst = File_init
    /\ xtxn = {}
    /\ xpc = "closed"
    /\ xlast = NoPairCall

PairInit ==
    /\ \E c \in PairContents :
           /\ xfile = atomic_write(yaml_safe_dump(c), AbsentFile)
           /\ xrows = RowsOf(c, KeyOrder)
    /\ PairIdle

\* ConfigurationFile.open(path) and ConfigurationDatabase.open(dbpath), up
\* to the block.
PairOpen ==
    /\ xpc = "closed"
    /\ ~File_load(File_init, touch(xfile)).error
    /\ xfile' = touch(xfile)
    /\ xst' = File_load(File_init, touch(xfile)).st
    /\ xrows' = Db_init("table", xrows).rows
    /\ xtxn' = Db_init("table", xrows).rows
    /\ xpc' = "block"
    /\ xlast' = [op |-> "open", name |-> "", file |-> <<"ok">>, db |-> <<"ok">>]
    /\ PairOnly

\* store[name] on both.
PairGet(name) ==
    /\ xpc = "block"
    /\ xlast' = [op |-> "get", name |-> name,
                 file |-> File_getitem(xst, name).result,
                 db |-> Db_getitem(xtxn, name)]
    /\ xst' = File_getitem(xst, name).st
    /\ UNCHANGED <<xfile, xrows, xtxn, xpc>>
    /\ PairOnly

\* store[name] = data on both.
PairSet(name, data) ==
    /\ xpc = "block"
    /\ NewRowId(xtxn) <= MaxRowId
    /\ xst' = File_setitem(xst, name, data)
    /\ xtxn' = Db_setitem(xtxn, name, data)
    /\ xlast' = [op |-> "set", name |-> name, file |-> <<"ok">>, db |-> <<"ok">>]
    /\ UNCHANGED <<xfile, xrows, xpc>>
    /\ PairOnly

\* del store[name] on both.
PairDel(name) ==
    /\ xpc = "block"
    /\ xst' = File_delitem(xst, name)
    /\ xtxn' = Db_delitem(xtxn, name)
    /\ xlast' = [op |-> "delete", name |-> name, file |-> <<"ok">>, db |-> <<"ok">>]
    /\ UNCHANGED <<xfile, xrows, xpc>>
    /\ PairOnly

\* set(store) on both: the names.
PairIter ==
    /\ xpc = "block"
    /\ xlast' = [op |-> "iterate", name |-> "",
                 file |-> <<"names", DOMAIN xst.config>>,
                 db |-> <<"names", Db_iter(xtxn)>>]
    /\ UNCHANGED <<xfile, xst, xrows, xtxn, xpc>>
    /\ PairOnly

\* The block exits cleanly: save when dirty; commit.
PairExitClean ==
    /\ xpc = "block"
    /\ xfile' = exit_save(xst, xfile).file
    /\ xrows' = Db_commit(xrows, xtxn)
    /\ xst' = File_init
    /\ xtxn' = {}
    /\ xpc' = "closed"
    /\ xlast' = [op |-> "exit", name |-> "", file |-> <<"ok">>, db |-> <<"ok">>]
    /\ PairOnly

\* The block raises: no save; no commit.
PairRaise ==
    /\ xpc = "block"
    /\ xfile' = raise_file(xst, xfile)
    /\ xrows' = Db_raise(xrows, xtxn)
    /\ xst' = File_init
    /\ xtxn' = {}
    /\ xpc' = "closed"
    /\ xlast' = [op |-> "raise", name |-> "", file |-> <<"raised">>, db |-> <<"raised">>]
    /\ PairOnly

PairNext ==
    \/ PairOpen
    \/ \E name \in Names : PairGet(name)
    \/ \E name \in Names, data \in PairValues : PairSet(name, data)
    \/ \E name \in Names : PairDel(name)
    \/ PairIter
    \/ PairExitClean
    \/ PairRaise

\* Two results are the same: the same outcome and, for a value, values
\* that are equal in Python.
SameResult(a, b) ==
    /\ a[1] = b[1]
    /\ a[1] = "ok" /\ Len(a) = 2 => PyEq(a[2], b[2])
    /\ a[1] = "names" => a[2] = b[2]

\* Two mappings hold the same names with equal values.
SameMapping(c, d) ==
    /\ DOMAIN c = DOMAIN d
    /\ \A n \in DOMAIN c : PyEq(c[n], d[n])

\* Between blocks the two stores persist the same mapping.
PairPersistsSame == xpc = "closed" => SameMapping(Stored(xfile), DbEntries(xrows))

\* C39, as claimed: after the same operations the two backends have
\* returned the same result, and between blocks they persist the same
\* mapping.
C39_BackendsEquivalent ==
    /\ SameResult(xlast.file, xlast.db)
    /\ PairPersistsSame

FileUnused == file = AbsentFile /\ FileIdle
DbUnused == dbState = "absent" /\ dbRows = {} /\ DbIdle
CacheUnused == disk = [f \in Paths |-> Missing] /\ CacheIdle
FacadeUnused == afile = AbsentFile /\ FacadeIdle
SaveUnused == sfile = AbsentFile /\ SaveIdle
EnvUnused == environ = EmptyDict /\ EnvIdle
OptionUnused == OptionIdle
PairUnused == xfile = AbsentFile /\ xrows = {} /\ PairIdle
BaseUnused == bdisk = [f \in BaseFiles |-> Missing] /\ BaseIdle

Init == FileInit /\ DbUnused /\ CacheUnused /\ FacadeUnused /\ SaveUnused /\ EnvUnused /\ OptionUnused /\ BaseUnused /\ PairUnused
InitDB == DbInit /\ FileUnused /\ CacheUnused /\ FacadeUnused /\ SaveUnused /\ EnvUnused /\ OptionUnused /\ BaseUnused /\ PairUnused
InitCache == CacheInit /\ FileUnused /\ DbUnused /\ FacadeUnused /\ SaveUnused /\ EnvUnused /\ OptionUnused /\ BaseUnused /\ PairUnused
InitFacade == FacadeInit /\ FileUnused /\ DbUnused /\ CacheUnused /\ SaveUnused /\ EnvUnused /\ OptionUnused /\ BaseUnused /\ PairUnused
InitSave == SaveInit /\ FileUnused /\ DbUnused /\ CacheUnused /\ FacadeUnused /\ EnvUnused /\ OptionUnused /\ BaseUnused /\ PairUnused
InitEnv == EnvInit /\ FileUnused /\ DbUnused /\ CacheUnused /\ FacadeUnused /\ SaveUnused /\ OptionUnused /\ BaseUnused /\ PairUnused
InitBase == BaseInit /\ FileUnused /\ DbUnused /\ CacheUnused /\ FacadeUnused /\ SaveUnused /\ EnvUnused /\ OptionUnused /\ PairUnused
InitPair == PairInit /\ FileUnused /\ DbUnused /\ CacheUnused /\ FacadeUnused /\ SaveUnused /\ EnvUnused /\ OptionUnused /\ BaseUnused
InitOption == OptionInit /\ FileUnused /\ DbUnused /\ CacheUnused /\ FacadeUnused /\ SaveUnused /\ EnvUnused /\ BaseUnused /\ PairUnused

Spec == Init /\ [][FileNext]_vars

\* Spec with every lock.acquire(timeout=5) coming to its end.
SpecLive == Init /\ [][FileNext]_vars /\ AcquireEnds

SpecDB == InitDB /\ [][DbNext]_vars

SpecCache == InitCache /\ [][CacheNext]_vars

\* A thread inside `with cls._cache_lock` goes on running: it enters the
\* lock when it can, parses, copies and leaves.
CacheHolderRuns ==
    \A t \in Procs :
        /\ WF_vars(LoadOpen(t))
        /\ WF_vars(LoadReturn(t))
        /\ WF_vars(NestedEnter(t))
        /\ WF_vars(NestedLeave(t))

SpecCacheLive == InitCache /\ [][CacheNext]_vars /\ CacheHolderRuns

SpecFacade == InitFacade /\ [][FacadeNext]_vars

SpecSave == InitSave /\ [][SaveNext]_vars

SpecEnv == InitEnv /\ [][EnvNext]_vars

SpecOption == InitOption /\ [][OptionNext]_vars

SpecBase == InitBase /\ [][BaseNext]_vars

SpecPair == InitPair /\ [][PairNext]_vars

====
